---------------------------- MODULE Spec2Model ----------------------------
(***************************************************************************)
(* Scoring and odds-points engine of the pick'em application:              *)
(*   lib/points.ts        (legacy match points, odds validation)           *)
(*   lib/pick6-scoring.ts (Pick 6 scoring and entry validation)            *)
(*                                                                         *)
(* Every TypeScript `number` is an IEEE-754 binary64 value.  The functions *)
(* below are evaluated with correctly rounded binary64 arithmetic, so that *)
(* Math.floor and Math.round act on the value the program really holds.    *)
(***************************************************************************)
EXTENDS Integers, Sequences, FiniteSets, TLC

(***************************************************************************)
(* Natural numbers of arbitrary size: little-endian sequences of limbs in  *)
(* 0 .. LimbBase-1 without leading zero limbs; <<>> is zero.               *)
(***************************************************************************)
LimbBits == 15
LimbBase == 2^LimbBits

Min(a, b) == IF a <= b THEN a ELSE b
Max(a, b) == IF a >= b THEN a ELSE b
Abs(n) == IF n < 0 THEN -n ELSE n

RECURSIVE BitLen(_)
BitLen(n) == IF n = 0 THEN 0 ELSE 1 + BitLen(n \div 2)

RECURSIVE BTrim(_)
BTrim(x) ==
  IF x = <<>> THEN <<>>
  ELSE IF x[Len(x)] = 0 THEN BTrim(SubSeq(x, 1, Len(x) - 1)) ELSE x

RECURSIVE BFromInt(_)
BFromInt(n) == IF n = 0 THEN <<>> ELSE <<n % LimbBase>> \o BFromInt(n \div LimbBase)

RECURSIVE BToInt(_)
BToInt(x) == IF x = <<>> THEN 0 ELSE x[1] + LimbBase * BToInt(Tail(x))

BBitLen(x) == IF x = <<>> THEN 0 ELSE LimbBits * (Len(x) - 1) + BitLen(x[Len(x)])

BIsOdd(x) == x # <<>> /\ x[1] % 2 = 1

RECURSIVE BCmpAt(_, _, _)
BCmpAt(x, y, i) ==
  IF i = 0 THEN 0
  ELSE IF x[i] < y[i] THEN -1
  ELSE IF x[i] > y[i] THEN 1
  ELSE BCmpAt(x, y, i - 1)

\* -1, 0, 1 as x < y, x = y, x > y
BCmp(x, y) ==
  IF Len(x) < Len(y) THEN -1
  ELSE IF Len(x) > Len(y) THEN 1
  ELSE BCmpAt(x, y, Len(x))

RECURSIVE BAddC(_, _, _)
BAddC(x, y, c) ==
  IF y = <<>> /\ c = 0 THEN x
  ELSE IF x = <<>> /\ c = 0 THEN y
  ELSE LET a == IF x = <<>> THEN 0 ELSE x[1]
           b == IF y = <<>> THEN 0 ELSE y[1]
           t == a + b + c
       IN  <<t % LimbBase>> \o
           BAddC(IF x = <<>> THEN <<>> ELSE Tail(x),
                 IF y = <<>> THEN <<>> ELSE Tail(y), t \div LimbBase)

BAdd(x, y) == BAddC(x, y, 0)

RECURSIVE BSubC(_, _, _)
BSubC(x, y, c) ==
  IF y = <<>> /\ c = 0 THEN x
  ELSE LET b == IF y = <<>> THEN 0 ELSE y[1]
           t == x[1] - b - c
       IN  <<IF t < 0 THEN t + LimbBase ELSE t>> \o
           BSubC(Tail(x), IF y = <<>> THEN <<>> ELSE Tail(y), IF t < 0 THEN 1 ELSE 0)

\* x - y, for x >= y
BSub(x, y) == BTrim(BSubC(x, y, 0))

RECURSIVE BMulSmallC(_, _, _)
BMulSmallC(x, k, c) ==
  IF x = <<>> THEN (IF c = 0 THEN <<>> ELSE <<c>>)
  ELSE LET t == x[1] * k + c
       IN  <<t % LimbBase>> \o BMulSmallC(Tail(x), k, t \div LimbBase)

\* x * k, for 0 <= k < LimbBase
BMulSmall(x, k) == IF k = 0 THEN <<>> ELSE BMulSmallC(x, k, 0)

RECURSIVE BMul(_, _)
BMul(x, y) ==
  IF x = <<>> \/ y = <<>> THEN <<>>
  ELSE BAdd(BMulSmall(x, y[1]),
            LET hi == BMul(x, Tail(y)) IN IF hi = <<>> THEN <<>> ELSE <<0>> \o hi)

RECURSIVE BDivSmall(_, _)
\* [q, r] with x = q * k + r, for 0 < k < LimbBase
BDivSmall(x, k) ==
  IF x = <<>> THEN [q |-> <<>>, r |-> 0]
  ELSE LET hi == BDivSmall(Tail(x), k)
           t  == hi.r * LimbBase + x[1]
           d  == t \div k
       IN  [q |-> IF d = 0 /\ hi.q = <<>> THEN <<>> ELSE <<d>> \o hi.q,
            r |-> t % k]

RECURSIVE BZeros(_)
BZeros(n) == IF n = 0 THEN <<>> ELSE <<0>> \o BZeros(n - 1)

\* x * 2^n
BShl(x, n) ==
  IF x = <<>> THEN <<>>
  ELSE BZeros(n \div LimbBits) \o BMulSmall(x, 2^(n % LimbBits))

\* floor(x / 2^n)
BShr(x, n) ==
  IF n \div LimbBits >= Len(x) THEN <<>>
  ELSE BDivSmall(SubSeq(x, n \div LimbBits + 1, Len(x)), 2^(n % LimbBits)).q

RECURSIVE BFitDigit(_, _, _)
\* the largest d <= q with d * D <= R
BFitDigit(D, R, q) ==
  IF BCmp(BMulSmall(D, q), R) <= 0 THEN q ELSE BFitDigit(D, R, q - 1)

\* the two limbs of R that stand over the top limb of a divisor of n limbs
BTopLimbs(R, n) ==
  (IF Len(R) > n THEN R[n + 1] * LimbBase ELSE 0) + (IF Len(R) >= n THEN R[n] ELSE 0)

RECURSIVE BDivModLimb(_, _, _, _, _)

\* long division by a divisor whose top limb is at least LimbBase / 2, one
\* limb of N at a time from the top: Q and R are the quotient and the
\* remainder of the limbs above limb i
BDivModLimb(N, D, i, Q, R) ==
  IF i = 0 THEN [q |-> BTrim(Q), r |-> R]
  ELSE LET R1 == IF R = <<>> /\ N[i] = 0 THEN <<>> ELSE <<N[i]>> \o R
           d  == BFitDigit(D, R1, Min(LimbBase - 1, BTopLimbs(R1, Len(D)) \div D[Len(D)]))
       IN  IF d = 0 THEN BDivModLimb(N, D, i - 1, <<0>> \o Q, R1)
           ELSE BDivModLimb(N, D, i - 1, <<d>> \o Q, BSub(R1, BMulSmall(D, d)))

BDivModN(N, D) == BDivModLimb(N, D, Len(N), <<>>, <<>>)

\* [q, r] with N = q * D + r * 2^-s (r = <<>> exactly when D divides N), D # 0
BDivMod(N, D) ==
  LET s == LimbBits - BitLen(D[Len(D)])
  IN  BDivModN(BMulSmall(N, 2^s), BMulSmall(D, 2^s))


(***************************************************************************)
(* binary64 values (non-negative ones; the engine holds no others on the   *)
(* inputs modelled): kind "fin" is m * 2^e with m = 0 or                   *)
(* 2^52 <= m < 2^53, kind "inf" is +Infinity, kind "nan" is NaN.           *)
(***************************************************************************)
MantissaBits == 53
DivShift == 4 * LimbBits

FZero == [kind |-> "fin", m |-> <<>>, e |-> 0]
Infinity == [kind |-> "inf", m |-> <<>>, e |-> 0]
NaN == [kind |-> "nan", m |-> <<>>, e |-> 0]

IsFinite(x) == x.kind = "fin"
FIsZero(x) == x.kind = "fin" /\ x.m = <<>>

\* the binary64 value nearest to N * 2^e (plus a nonzero fraction below the
\* last bit of N when sticky), ties to even; sticky needs BBitLen(N) > 54
FRound(N, e, sticky) ==
  LET bl == BBitLen(N)
  IN  IF bl = 0 THEN FZero
      ELSE IF bl <= MantissaBits
      THEN [kind |-> "fin", m |-> BShl(N, MantissaBits - bl), e |-> e - (MantissaBits - bl)]
      ELSE LET s  == bl - MantissaBits
               q  == BShr(N, s)
               r  == BSub(N, BShl(q, s))
               c  == BCmp(r, BShl(<<1>>, s - 1))
               up == c > 0 \/ (c = 0 /\ (sticky \/ BIsOdd(q)))
               m1 == IF up THEN BAdd(q, <<1>>) ELSE q
           IN  IF BBitLen(m1) > MantissaBits
               THEN [kind |-> "fin", m |-> BShr(m1, 1), e |-> e + s + 1]
               ELSE [kind |-> "fin", m |-> m1, e |-> e + s]

\* an integer literal or integer-valued argument (|n| < 2^31, n >= 0)
FromInt(n) == FRound(BFromInt(n), 0, FALSE)

\* x + y
FAdd(x, y) ==
  IF x.kind = "nan" \/ y.kind = "nan" THEN NaN
  ELSE IF x.kind = "inf" \/ y.kind = "inf" THEN Infinity
  ELSE IF x.m = <<>> THEN y
  ELSE IF y.m = <<>> THEN x
  ELSE LET lo == Min(x.e, y.e)
       IN  FRound(BAdd(BShl(x.m, x.e - lo), BShl(y.m, y.e - lo)), lo, FALSE)

\* x - y, for x >= y
FSub(x, y) ==
  IF x.kind = "nan" \/ y.kind # "fin" THEN NaN
  ELSE IF x.kind = "inf" THEN Infinity
  ELSE IF y.m = <<>> THEN x
  ELSE LET lo == Min(x.e, y.e)
       IN  FRound(BSub(BShl(x.m, x.e - lo), BShl(y.m, y.e - lo)), lo, FALSE)

\* x * y
FMul(x, y) ==
  IF x.kind = "nan" \/ y.kind = "nan" THEN NaN
  ELSE IF x.kind = "inf" \/ y.kind = "inf"
  THEN (IF FIsZero(x) \/ FIsZero(y) THEN NaN ELSE Infinity)
  ELSE FRound(BMul(x.m, y.m), x.e + y.e, FALSE)

\* x / y
FDiv(x, y) ==
  IF x.kind = "nan" \/ y.kind = "nan" THEN NaN
  ELSE IF x.kind = "inf" THEN (IF y.kind = "inf" THEN NaN ELSE Infinity)
  ELSE IF y.kind = "inf" THEN FZero
  ELSE IF y.m = <<>> THEN (IF x.m = <<>> THEN NaN ELSE Infinity)
  ELSE IF x.m = <<>> THEN FZero
  ELSE LET d == BDivMod(BShl(x.m, DivShift), y.m)
       IN  FRound(d.q, x.e - DivShift - y.e, d.r # <<>>)

\* x < y, x <= y on non-NaN values
FLess(x, y) ==
  /\ x.kind = "fin"
  /\ \/ y.kind = "inf"
     \/ /\ y.kind = "fin"
        /\ y.m # <<>>
        /\ \/ x.m = <<>>
           \/ x.e < y.e
           \/ x.e = y.e /\ BCmp(x.m, y.m) < 0
FLeq(x, y) == x.kind # "nan" /\ y.kind # "nan" /\ (x = y \/ FLess(x, y))

\* Math.floor(x) of a finite x below 2^31, as an integer
MathFloor(x) ==
  IF x.e >= 0 THEN BToInt(BShl(x.m, x.e)) ELSE BToInt(BShr(x.m, -x.e))

\* Math.round(x) of a finite x below 2^31, as an integer: halves round up
MathRoundInt(x) ==
  IF x.e >= 0 THEN BToInt(BShl(x.m, x.e))
  ELSE LET q == BShr(x.m, -x.e)
           r == BSub(x.m, BShl(q, -x.e))
       IN  BToInt(q) + (IF BCmp(r, BShl(<<1>>, -x.e - 1)) >= 0 THEN 1 ELSE 0)

\* Math.round(x): Infinity and NaN are returned unchanged
MathRound(x) == IF x.kind = "fin" THEN FromInt(MathRoundInt(x)) ELSE x

\* Math.round(-x) of a finite x below 2^31, as an integer: a negative half
\* rounds towards zero (-2.5 gives -2)
MathRoundNegInt(x) ==
  IF x.e >= 0 THEN -BToInt(BShl(x.m, x.e))
  ELSE LET q == BShr(x.m, -x.e)
           r == BSub(x.m, BShl(q, -x.e))
       IN  -(BToInt(q) + (IF BCmp(r, BShl(<<1>>, -x.e - 1)) > 0 THEN 1 ELSE 0))

\* x * 2^k, exact
FScale(x, k) == IF x.kind = "fin" /\ x.m # <<>> THEN [x EXCEPT !.e = @ + k] ELSE x

Sign(n) == IF n > 0 THEN 1 ELSE IF n < 0 THEN -1 ELSE 0


(***************************************************************************)
(* lib/pick6-scoring.ts                                                    *)
(***************************************************************************)
NULL == "null"
FinishTypes == {NULL, "decision", "ko_tko", "submission"}

\* the literals 10, 0.1 and 50
Ten == FromInt(10)
Tenth == FDiv(FromInt(1), FromInt(10))
Fifty == FromInt(50)

\* faulty variant: the tenths are truncated instead of rounded
calculateBasePoints_Truncated(americanOdds) ==
  IF americanOdds > 0
  THEN FromInt(americanOdds)
  ELSE FDiv(FromInt(MathFloor(FMul(FDiv(FromInt(10000), FromInt(Abs(americanOdds))), Ten))),
            Ten)

\* faulty variant: a favorite is given its own stake instead of the return on it
calculateBasePoints_FavoriteStake(americanOdds) ==
  IF americanOdds > 0
  THEN FromInt(americanOdds)
  ELSE FromInt(Abs(americanOdds))

calculateBasePoints(americanOdds) ==
  IF americanOdds > 0
  THEN FromInt(americanOdds)
  ELSE FDiv(MathRound(FMul(FDiv(FromInt(10000), FromInt(Abs(americanOdds))), Ten)), Ten)

calculateFinishBonus(finishType) ==
  IF finishType # NULL /\ finishType # "decision" THEN Fifty ELSE FZero

\* faulty variant: the bonus starts above +100 instead of at +100
calculateUnderdogBonus_Above100(americanOdds, basePoints) ==
  IF americanOdds > 100
  THEN FDiv(MathRound(FMul(FMul(basePoints, Tenth), Ten)), Ten)
  ELSE FZero

calculateUnderdogBonus(americanOdds, basePoints) ==
  IF americanOdds >= 100
  THEN FDiv(MathRound(FMul(FMul(basePoints, Tenth), Ten)), Ten)
  ELSE FZero

\* faulty variant: the loss is not looked at
calculatePick6Points_IgnoringLoss(sel) ==
  LET basePoints == calculateBasePoints(sel.americanOdds)
      finishBonus == calculateFinishBonus(sel.finishType)
      underdogBonus == calculateUnderdogBonus(sel.americanOdds, basePoints)
      doubleDownMultiplier == IF sel.isDoubleDown THEN 2 ELSE 1
      subtotal == FAdd(FAdd(basePoints, finishBonus), underdogBonus)
  IN  [base_points |-> basePoints, finish_bonus |-> finishBonus,
       underdog_bonus |-> underdogBonus,
       double_down_multiplier |-> doubleDownMultiplier,
       total_points |->
         FDiv(MathRound(FMul(FMul(subtotal, FromInt(doubleDownMultiplier)), Ten)), Ten)]

\* faulty variant: a losing selection keeps the multiplier of its double down
calculatePick6Points_LoserKeepsMultiplier(sel) ==
  LET basePoints == calculateBasePoints(sel.americanOdds)
      finishBonus == calculateFinishBonus(sel.finishType)
      underdogBonus == calculateUnderdogBonus(sel.americanOdds, basePoints)
      doubleDownMultiplier == IF sel.isDoubleDown THEN 2 ELSE 1
      subtotal == FAdd(FAdd(basePoints, finishBonus), underdogBonus)
  IN  IF ~sel.isWinner
      THEN [base_points |-> FZero, finish_bonus |-> FZero, underdog_bonus |-> FZero,
            double_down_multiplier |-> doubleDownMultiplier, total_points |-> FZero]
      ELSE [base_points |-> basePoints, finish_bonus |-> finishBonus,
            underdog_bonus |-> underdogBonus,
            double_down_multiplier |-> doubleDownMultiplier,
            total_points |->
              FDiv(MathRound(FMul(FMul(subtotal, FromInt(doubleDownMultiplier)), Ten)),
                   Ten)]

\* sel = [americanOdds, isWinner, finishType, isDoubleDown]
calculatePick6Points(sel) ==
  IF ~sel.isWinner
  THEN [base_points |-> FZero, finish_bonus |-> FZero, underdog_bonus |-> FZero,
        double_down_multiplier |-> 1, total_points |-> FZero]
  ELSE LET basePoints == calculateBasePoints(sel.americanOdds)
           finishBonus == calculateFinishBonus(sel.finishType)
           underdogBonus == calculateUnderdogBonus(sel.americanOdds, basePoints)
           doubleDownMultiplier == IF sel.isDoubleDown THEN 2 ELSE 1
           subtotal == FAdd(FAdd(basePoints, finishBonus), underdogBonus)
           totalPoints ==
             FDiv(MathRound(FMul(FMul(subtotal, FromInt(doubleDownMultiplier)), Ten)), Ten)
       IN  [base_points |-> basePoints, finish_bonus |-> finishBonus,
            underdog_bonus |-> underdogBonus,
            double_down_multiplier |-> doubleDownMultiplier,
            total_points |-> totalPoints]

\* faulty variant: base points times the multiplier, without the bonuses
calculatePotentialPoints_BaseOnly(americanOdds, isDoubleDown) ==
  FMul(calculateBasePoints(americanOdds), FromInt(IF isDoubleDown THEN 2 ELSE 1))

calculatePotentialPoints(americanOdds, isDoubleDown) ==
  LET basePoints == calculateBasePoints(americanOdds)
      maxFinishBonus == Fifty
      maxUnderdogBonus ==
        IF americanOdds >= 100
        THEN FDiv(MathRound(FMul(FMul(basePoints, Tenth), Ten)), Ten)
        ELSE FZero
      doubleDownMultiplier == IF isDoubleDown THEN 2 ELSE 1
      maxPoints == FMul(FAdd(FAdd(basePoints, maxFinishBonus), maxUnderdogBonus),
                        FromInt(doubleDownMultiplier))
  IN  FDiv(MathRound(FMul(maxPoints, Ten)), Ten)

\* new Set(matchIds)
MatchIdSet(picks) == {picks[i].match_id : i \in 1..Len(picks)}

ErrPickCount(requiredPickCount) == <<"Must select exactly ", requiredPickCount, " fighters">>
ErrDuplicateMatch == "Cannot select multiple fighters from the same fight"

\* faulty variant: the duplicate check is skipped once the count is wrong
validatePick6Entry_FirstErrorOnly(picks, requiredPickCount) ==
  IF Len(picks) # requiredPickCount
  THEN [isValid |-> FALSE, errors |-> <<ErrPickCount(requiredPickCount)>>]
  ELSE IF Cardinality(MatchIdSet(picks)) # Len(picks)
  THEN [isValid |-> FALSE, errors |-> <<ErrDuplicateMatch>>]
  ELSE [isValid |-> TRUE, errors |-> <<>>]

validatePick6Entry(picks, requiredPickCount) ==
  LET errors1 == IF Len(picks) # requiredPickCount
                 THEN <<ErrPickCount(requiredPickCount)>> ELSE <<>>
      errors  == IF Cardinality(MatchIdSet(picks)) # Len(picks)
                 THEN Append(errors1, ErrDuplicateMatch) ELSE errors1
  IN  [isValid |-> Len(errors) = 0, errors |-> errors]

(***************************************************************************)
(* lib/points.ts                                                           *)
(***************************************************************************)
One == FromInt(1)

Two == FromInt(2)
Hundred == FromInt(100)

\* americanOddsToDecimal on a number given by its sign and its magnitude
\* Math.abs(americanOdds), which may be larger than an integer of the model
americanOddsToDecimalNumber(sign, magnitude) ==
  IF sign = 0 THEN One
  ELSE IF sign > 0 THEN FAdd(FDiv(magnitude, Hundred), One)
  ELSE FAdd(FDiv(Hundred, magnitude), One)

americanOddsToDecimal(americanOdds) ==
  americanOddsToDecimalNumber(Sign(americanOdds), FromInt(Abs(americanOdds)))

\* faulty variant: the favorite branch loses its sign
decimalToAmericanOdds_Unsigned(decimal) ==
  IF decimal = One THEN 0
  ELSE IF FLeq(Two, decimal) THEN MathRoundInt(FMul(FSub(decimal, One), Hundred))
  ELSE IF FLess(One, decimal) THEN MathRoundInt(FDiv(Hundred, FSub(decimal, One)))
  ELSE MathRoundInt(FDiv(Hundred, FSub(One, decimal)))

\* faulty variant: the underdog branch starts above 2.0
decimalToAmericanOdds_Above2(decimal) ==
  IF decimal = One THEN 0
  ELSE IF FLess(Two, decimal) THEN MathRoundInt(FMul(FSub(decimal, One), Hundred))
  ELSE IF FLess(One, decimal) THEN MathRoundNegInt(FDiv(Hundred, FSub(decimal, One)))
  ELSE MathRoundInt(FDiv(Hundred, FSub(One, decimal)))

\* decimal - 1 is negative below 1.0 and -100 / (decimal - 1) positive: the
\* quotient has the magnitude of 100 / |decimal - 1| in every case
decimalToAmericanOdds(decimal) ==
  IF decimal = One THEN 0
  ELSE IF FLeq(Two, decimal) THEN MathRoundInt(FMul(FSub(decimal, One), Hundred))
  ELSE IF FLess(One, decimal) THEN MathRoundNegInt(FDiv(Hundred, FSub(decimal, One)))
  ELSE MathRoundInt(FDiv(Hundred, FSub(One, decimal)))

americanOddsToImpliedProbability(americanOdds) ==
  IF americanOdds > 0
  THEN FDiv(FromInt(100), FromInt(americanOdds + 100))
  ELSE FDiv(FromInt(Abs(americanOdds)), FromInt(Abs(americanOdds) + 100))

DefaultBasePoints == 1000

\* the text is a record: its wording, and the number it shows (the points of
\* a pick-em, the percentage otherwise)
getAmericanOddsDescription(americanOdds, basePoints) ==
  IF americanOdds = 0 \/ Abs(americanOdds) <= 5
  THEN [text |-> "True pick-em", shown |-> basePoints]
  ELSE LET probability == americanOddsToImpliedProbability(Abs(americanOdds))
           percentChance == MathRoundInt(FMul(probability, Hundred))
       IN  IF americanOdds > 0
           THEN [text |-> "Underdog", shown |-> percentChance]
           ELSE [text |-> "Favorite", shown |-> percentChance]

\* faulty variant: the other side's probability is not complemented
calculateMatchPointsFromAmerican_SameProbability(americanOdds, basePoints) ==
  LET decimalOdds == americanOddsToDecimal(americanOdds)
  IN  IF americanOdds = 0 \/ Abs(americanOdds) <= 5
      THEN [favorite_points |-> basePoints, underdog_points |-> basePoints,
            odds_ratio |-> One, favorite |-> "A", americanOdds |-> 0]
      ELSE LET p == americanOddsToImpliedProbability(americanOdds)
               points == MathFloor(FDiv(FMul(p, FromInt(basePoints)), p))
               floor == MathFloor(FMul(FromInt(basePoints), Tenth))
           IN  [favorite_points |->
                  Max(floor, IF americanOdds < 0 THEN points ELSE basePoints),
                underdog_points |->
                  Max(floor, IF americanOdds < 0 THEN basePoints ELSE points),
                odds_ratio |-> decimalOdds, favorite |-> "A",
                americanOdds |-> americanOdds]

\* faulty variant: the pick-em branch returns the odds it was given
calculateMatchPointsFromAmerican_KeepsOdds(americanOdds, basePoints) ==
  LET decimalOdds == americanOddsToDecimal(americanOdds)
      p == americanOddsToImpliedProbability(americanOdds)
      q == FSub(One, p)
      points == MathFloor(FDiv(FMul(q, FromInt(basePoints)), p))
      floor == MathFloor(FMul(FromInt(basePoints), Tenth))
  IN  IF americanOdds = 0 \/ Abs(americanOdds) <= 5
      THEN [favorite_points |-> basePoints, underdog_points |-> basePoints,
            odds_ratio |-> One, favorite |-> "A", americanOdds |-> americanOdds]
      ELSE [favorite_points |->
              Max(floor, IF americanOdds < 0 THEN points ELSE basePoints),
            underdog_points |->
              Max(floor, IF americanOdds < 0 THEN basePoints ELSE points),
            odds_ratio |-> decimalOdds, favorite |-> "A",
            americanOdds |-> americanOdds]

calculateMatchPointsFromAmerican(americanOdds, basePoints) ==
  LET decimalOdds == americanOddsToDecimal(americanOdds)
  IN  IF americanOdds = 0 \/ Abs(americanOdds) <= 5
      THEN [favorite_points |-> basePoints, underdog_points |-> basePoints,
            odds_ratio |-> One, favorite |-> "A", americanOdds |-> 0]
      ELSE LET p == americanOddsToImpliedProbability(americanOdds)
               favoriteWinProbability == IF americanOdds < 0 THEN p ELSE FSub(One, p)
               underdogWinProbability == IF americanOdds < 0 THEN FSub(One, p) ELSE p
               favorite_points0 ==
                 IF americanOdds < 0
                 THEN MathFloor(FDiv(FMul(underdogWinProbability, FromInt(basePoints)),
                                     favoriteWinProbability))
                 ELSE basePoints
               underdog_points0 ==
                 IF americanOdds < 0
                 THEN basePoints
                 ELSE MathFloor(FDiv(FMul(favoriteWinProbability, FromInt(basePoints)),
                                     underdogWinProbability))
               floor == MathFloor(FMul(FromInt(basePoints), Tenth))
           IN  [favorite_points |-> Max(floor, favorite_points0),
                underdog_points |-> Max(floor, underdog_points0),
                odds_ratio |-> decimalOdds, favorite |-> "A",
                americanOdds |-> americanOdds]

\* Math.max on two numbers
FMax(x, y) == IF FLess(x, y) THEN y ELSE x

\* faulty variant: the ratio is not raised to 1.0
calculateMatchPoints_Unnormalized(oddsRatio) ==
  [favorite_points |-> Max(50, MathFloor(FDiv(FromInt(1000), oddsRatio))),
   underdog_points |-> 1000, odds_ratio |-> oddsRatio, favorite |-> "A"]

\* faulty variant: no minimum of 50 points
calculateMatchPoints_NoMinimum(oddsRatio) ==
  [favorite_points |-> MathFloor(FDiv(FromInt(1000), FMax(One, oddsRatio))),
   underdog_points |-> 1000, odds_ratio |-> FMax(One, oddsRatio), favorite |-> "A"]

\* faulty variant: the quotient is rounded instead of floored
calculateMatchPoints_Rounded(oddsRatio) ==
  [favorite_points |-> Max(50, MathRoundInt(FDiv(FromInt(1000), FMax(One, oddsRatio)))),
   underdog_points |-> 1000, odds_ratio |-> FMax(One, oddsRatio), favorite |-> "A"]

calculateMatchPoints(oddsRatio) ==
  LET underdog_points == 1000
      normalizedOdds == FMax(One, oddsRatio)
      favorite_points == Max(50, MathFloor(FDiv(FromInt(1000), normalizedOdds)))
  IN  [favorite_points |-> favorite_points, underdog_points |-> underdog_points,
       odds_ratio |-> normalizedOdds, favorite |-> "A"]

\* a Match carries favorite, winner (each "A", "B" or null), favorite_points
\* and underdog_points; a Pick carries selected_wrestler
Wrestlers == {"A", "B"}
EvenMatchPoints == 500

\* faulty variant: both sides read the favorite's points
getPickingPoints_FavoriteForBoth(match) ==
  IF match.favorite = NULL
  THEN [wrestler_a |-> EvenMatchPoints, wrestler_b |-> EvenMatchPoints]
  ELSE [wrestler_a |-> match.favorite_points, wrestler_b |-> match.favorite_points]

getPickingPoints(match) ==
  IF match.favorite = NULL
  THEN [wrestler_a |-> EvenMatchPoints, wrestler_b |-> EvenMatchPoints]
  ELSE [wrestler_a |-> IF match.favorite = "A" THEN match.favorite_points
                       ELSE match.underdog_points,
        wrestler_b |-> IF match.favorite = "B" THEN match.favorite_points
                       ELSE match.underdog_points]

\* faulty variant: the selection is not compared with the winner
calculatePickPoints_IgnoringWinner(match, pick) ==
  IF match.winner = NULL \/ pick.selected_wrestler = NULL THEN 0
  ELSE IF match.favorite = NULL THEN EvenMatchPoints
  ELSE IF pick.selected_wrestler = match.favorite THEN match.favorite_points
  ELSE match.underdog_points

calculatePickPoints(match, pick) ==
  IF match.winner = NULL \/ pick.selected_wrestler = NULL THEN 0
  ELSE IF pick.selected_wrestler # match.winner THEN 0
  ELSE IF match.favorite = NULL THEN EvenMatchPoints
  ELSE LET pickedFavorite == pick.selected_wrestler = match.favorite
       IN  IF pickedFavorite THEN match.favorite_points ELSE match.underdog_points

getWrestlerRole(match, wrestler) ==
  IF match.favorite = NULL THEN "even"
  ELSE IF wrestler = match.favorite THEN "favorite" ELSE "underdog"

NoPotential ==
  [max_possible |-> 0, min_possible |-> 0, all_favorites |-> 0, all_underdogs |-> 0]

\* the body of the forEach callback: the four running totals after match
AddMatchPotential(totals, match) ==
  LET points == getPickingPoints(match)
      higher == Max(points.wrestler_a, points.wrestler_b)
      lower  == Min(points.wrestler_a, points.wrestler_b)
  IN  [max_possible  |-> totals.max_possible + higher,
       min_possible  |-> totals.min_possible + lower,
       all_favorites |-> totals.all_favorites +
                           (IF match.favorite # NULL THEN match.favorite_points
                            ELSE EvenMatchPoints),
       all_underdogs |-> totals.all_underdogs +
                           (IF match.favorite # NULL THEN match.underdog_points
                            ELSE EvenMatchPoints)]

\* matches.forEach from index i on, in the order of the list
RECURSIVE ForEachMatch(_, _, _)
ForEachMatch(matches, i, totals) ==
  IF i > Len(matches) THEN totals
  ELSE ForEachMatch(matches, i + 1, AddMatchPotential(totals, matches[i]))

\* faulty variant: a match without a favorite adds nothing
calculateEventPotential_FavoriteLessSkipped(matches) ==
  ForEachMatch(SelectSeq(matches, LAMBDA match : match.favorite # NULL), 1, NoPotential)

\* faulty variant: each match overwrites the totals instead of adding to them
calculateEventPotential_LastMatchOnly(matches) ==
  IF matches = <<>> THEN NoPotential
  ELSE AddMatchPotential(NoPotential, matches[Len(matches)])

\* faulty variant: the best case of a match is its lower side
calculateEventPotential_LowerSide(matches) ==
  LET totals == ForEachMatch(matches, 1, NoPotential)
  IN  [totals EXCEPT !.max_possible = totals.min_possible]

calculateEventPotential(matches) == ForEachMatch(matches, 1, NoPotential)

MaxValidOdds == 10000

ErrPositiveOdds == "Positive odds must be 100 or greater (e.g., +100, +150)"
ErrNegativeOdds == "Negative odds must be -100 or less (e.g., -100, -150)"
ErrOddsTooLarge == "Odds cannot exceed +-10000"

\* faulty variant: exactly +100 and -100 are rejected
validateAmericanOdds_Excluding100(odds) ==
  IF odds = 0 THEN [isValid |-> TRUE]
  ELSE IF odds > 0 /\ odds <= 100 THEN [isValid |-> FALSE, error |-> ErrPositiveOdds]
  ELSE IF odds < 0 /\ odds >= -100 THEN [isValid |-> FALSE, error |-> ErrNegativeOdds]
  ELSE IF Abs(odds) > MaxValidOdds THEN [isValid |-> FALSE, error |-> ErrOddsTooLarge]
  ELSE [isValid |-> TRUE]

validateAmericanOdds(odds) ==
  IF odds = 0 THEN [isValid |-> TRUE]
  ELSE IF odds > 0 /\ odds < 100 THEN [isValid |-> FALSE, error |-> ErrPositiveOdds]
  ELSE IF odds < 0 /\ odds > -100 THEN [isValid |-> FALSE, error |-> ErrNegativeOdds]
  ELSE IF Abs(odds) > MaxValidOdds THEN [isValid |-> FALSE, error |-> ErrOddsTooLarge]
  ELSE [isValid |-> TRUE]


(***************************************************************************)
(* lib/validation.ts.  A string is the sequence of its characters; a date  *)
(* string is empty, unparseable, or an ISO text with its time value; a     *)
(* number is NaN or a count of tenths.                                     *)
(***************************************************************************)
WhiteSpace == {" "}

RECURSIVE TrimStart(_)
TrimStart(s) ==
  IF s # <<>> /\ s[1] \in WhiteSpace THEN TrimStart(Tail(s)) ELSE s

RECURSIVE TrimEnd(_)
TrimEnd(s) ==
  IF s # <<>> /\ s[Len(s)] \in WhiteSpace THEN TrimEnd(SubSeq(s, 1, Len(s) - 1)) ELSE s

\* String.prototype.trim
Trim(s) == TrimEnd(TrimStart(s))

LowerCaseOf(c) == IF c = "A" THEN "a" ELSE IF c = "B" THEN "b" ELSE c

\* String.prototype.toLowerCase
ToLowerCase(s) == [i \in 1..Len(s) |-> LowerCaseOf(s[i])]

\* new Date(text).getTime(): the time value, or NaN
DateGetTime(date) == IF date.text = "iso" THEN [nan |-> FALSE, time |-> date.time]
                     ELSE [nan |-> TRUE, time |-> 0]

\* Number.isInteger
NumberIsInteger(n) == ~n.nan /\ n.tenths % 10 = 0

NumberLess(n, k) == ~n.nan /\ n.tenths < 10 * k
NumberGreater(n, k) == ~n.nan /\ n.tenths > 10 * k

MaxEventNameLength == 100
MaxWeightClassLength == 50
MaxWrestlerNameLength == 100
MaxMatchOrder == 20

ErrEventNameRequired == "Event name is required"
ErrEventNameTooLong == "Event name must be less than 100 characters"
ErrEventDateRequired == "Event date is required"
ErrEventDateInvalid == "Please enter a valid event date"
ErrDeadlineRequired == "Picks deadline is required"
ErrDeadlineInvalid == "Please enter a valid picks deadline"
ErrDeadlineAfterEvent == "Picks deadline must be before the event date"

\* errors.push(message) when the condition holds
PushIf(errors, condition, message) == IF condition THEN Append(errors, message) ELSE errors

ValidationResult(errors) == [isValid |-> Len(errors) = 0, errors |-> errors]

validateEvent(data) ==
  LET errors1 == IF Trim(data.name) = <<>> THEN <<ErrEventNameRequired>>
                 ELSE IF Len(data.name) > MaxEventNameLength THEN <<ErrEventNameTooLong>>
                 ELSE <<>>
      errors2 == IF data.event_date.text = "" THEN Append(errors1, ErrEventDateRequired)
                 ELSE PushIf(errors1, DateGetTime(data.event_date).nan, ErrEventDateInvalid)
      errors3 == IF data.picks_deadline.text = "" THEN Append(errors2, ErrDeadlineRequired)
                 ELSE PushIf(errors2, DateGetTime(data.picks_deadline).nan, ErrDeadlineInvalid)
  IN  ValidationResult(errors3)

ErrWeightClassRequired == "Weight class is required"
ErrWeightClassTooLong == "Weight class must be less than 50 characters"
ErrWrestlerARequired == "Wrestler A name is required"
ErrWrestlerATooLong == "Wrestler A name must be less than 100 characters"
ErrWrestlerBRequired == "Wrestler B name is required"
ErrWrestlerBTooLong == "Wrestler B name must be less than 100 characters"
ErrSameWrestlers == "Wrestler names must be different"
ErrMatchOrder == "Match order must be a number between 1 and 20"

\* the four field checks before the comparison of the names
MatchFieldErrors(data) ==
  LET errors1 == IF Trim(data.weight_class) = <<>> THEN <<ErrWeightClassRequired>>
                 ELSE IF Len(data.weight_class) > MaxWeightClassLength
                 THEN <<ErrWeightClassTooLong>>
                 ELSE <<>>
      errors2 == IF Trim(data.wrestler_a) = <<>> THEN Append(errors1, ErrWrestlerARequired)
                 ELSE PushIf(errors1, Len(data.wrestler_a) > MaxWrestlerNameLength,
                             ErrWrestlerATooLong)
  IN  IF Trim(data.wrestler_b) = <<>> THEN Append(errors2, ErrWrestlerBRequired)
      ELSE PushIf(errors2, Len(data.wrestler_b) > MaxWrestlerNameLength, ErrWrestlerBTooLong)

MatchOrderOutOfRange(match_order) ==
  \/ ~NumberIsInteger(match_order)
  \/ NumberLess(match_order, 1)
  \/ NumberGreater(match_order, MaxMatchOrder)

\* faulty variant: the names are compared as typed
validateMatch_NamesAsTyped(data) ==
  ValidationResult(
    PushIf(PushIf(MatchFieldErrors(data), data.wrestler_a = data.wrestler_b, ErrSameWrestlers),
           MatchOrderOutOfRange(data.match_order), ErrMatchOrder))

validateMatch(data) ==
  ValidationResult(
    PushIf(PushIf(MatchFieldErrors(data),
                  ToLowerCase(Trim(data.wrestler_a)) = ToLowerCase(Trim(data.wrestler_b)),
                  ErrSameWrestlers),
           MatchOrderOutOfRange(data.match_order), ErrMatchOrder))


(***************************************************************************)
(* The engine is a library of pure functions.  A behaviour is one call:    *)
(* the initial state holds the function and its arguments, the action of   *)
(* that function evaluates it and stores what it returns.                  *)
(***************************************************************************)
VARIABLES pc, call, ret

(***************************************************************************)
(* Around the engine stand the pages that call it and the tables they      *)
(* write.  Their state is held in the variables below; a behaviour of the  *)
(* engine alone leaves them empty.                                         *)
(***************************************************************************)
\* useState of components/Pick6Interface
VARIABLES selectedPicks, showDoubleDown, doubleDownPickId, existingEntry
\* tables of the database (matchesTable is the table matches)
VARIABLES matchesTable, pick6_entries, pick6_selections
\* useState of the admin page, and the number of saves made on it
VARIABLES matchForm, editMatchForm, editingMatchId, saves

componentVars == <<selectedPicks, showDoubleDown, doubleDownPickId, existingEntry>>
databaseVars == <<matchesTable, pick6_entries, pick6_selections>>
adminVars == <<matchForm, editMatchForm, editingMatchId, saves>>
vars == <<pc, call, ret, componentVars, databaseVars, adminVars>>

\* a null id; the ids of rows are positive
NullId == 0

\* a null entry: existingEntry?.is_complete || false is FALSE on it
NoEntry == [id |-> NullId, is_complete |-> FALSE, double_down_pick_id |-> NullId]

NoComponent ==
  /\ selectedPicks = <<>>
  /\ showDoubleDown = FALSE
  /\ doubleDownPickId = NullId
  /\ existingEntry = NoEntry

NoDatabase == matchesTable = <<>> /\ pick6_entries = <<>> /\ pick6_selections = <<>>

NoAdminPage ==
  /\ matchForm = <<>>
  /\ editMatchForm = <<>>
  /\ editingMatchId = NullId
  /\ saves = 0

\* bounds of the inputs
MaxOdds == 15000
DenseOdds == 1100
OddsStep == 50
BoundaryWidth == 2
MaxSmallBase == 10
MaxRatioHundredths == 2500
MaxPicks == 4
MaxMatchId == 4
MaxScale == 64
MaxMatches == 3
MaxDate == 3
MaxCardMatches == 3
pickCount == 2
MaxEntries == 2
MaxSaves == 2
MaxScoredMatches == 2
MaxOrderTenths == 215

AllOdds == -MaxOdds..MaxOdds

\* every small odds value, a grid over the rest, and the neighbourhood of the
\* largest magnitude validateAmericanOdds accepts
ScoringOdds ==
  {o \in AllOdds : \/ Abs(o) <= DenseOdds
                   \/ Abs(o) % OddsStep = 0
                   \/ /\ Abs(o) >= MaxValidOdds - BoundaryWidth
                      /\ Abs(o) <= MaxValidOdds + BoundaryWidth}

BasePointsInputs == (0..MaxSmallBase) \cup {DefaultBasePoints}

RECURSIVE SeqsUpTo(_, _)
SeqsUpTo(S, n) ==
  IF n = 0 THEN {<<>>}
  ELSE LET shorter == SeqsUpTo(S, n - 1)
       IN  shorter \cup {Append(q, x) : q \in {t \in shorter : Len(t) = n - 1}, x \in S}

PickInputs == SeqsUpTo({[match_id |-> i] : i \in 1..MaxMatchId}, MaxPicks)

Pick6Calls ==
  {[fn |-> "calculateBasePoints", americanOdds |-> o] : o \in ScoringOdds}
  \cup {[fn |-> "calculatePotentialPoints", americanOdds |-> o, isDoubleDown |-> d] :
          o \in ScoringOdds, d \in BOOLEAN}
  \cup {[fn |-> "calculatePick6Points",
         sel |-> [americanOdds |-> o, isWinner |-> w, finishType |-> f, isDoubleDown |-> d]] :
          o \in ScoringOdds, w \in BOOLEAN, f \in FinishTypes, d \in BOOLEAN}

EntryCalls ==
  {[fn |-> "validatePick6Entry", picks |-> p, requiredPickCount |-> n] :
     p \in PickInputs, n \in 0..MaxPicks}

OddsCalls == {[fn |-> "validateAmericanOdds", odds |-> o] : o \in AllOdds}

\* the ratio argument is the binary64 value of the decimal hundredths / 100
PointsCalls ==
  {[fn |-> "calculateMatchPointsFromAmerican", americanOdds |-> o, basePoints |-> b] :
     o \in ScoringOdds, b \in BasePointsInputs}
  \cup {[fn |-> "calculateMatchPoints", hundredths |-> n,
         oddsRatio |-> FDiv(FromInt(n), FromInt(100))] : n \in 0..MaxRatioHundredths}

\* americanOddsToDecimal is called on odds * 2^scale: every odds value at
\* scale 0 and the powers of two beyond the integers of the model
ConversionCalls ==
  {[fn |-> "americanOddsToDecimal", americanOdds |-> o, scale |-> 0] : o \in AllOdds}
  \cup {[fn |-> "americanOddsToDecimal", americanOdds |-> o, scale |-> k] :
          o \in {-1, 1}, k \in 1..MaxScale}
  \cup {[fn |-> "decimalToAmericanOdds", hundredths |-> n,
         decimal |-> FDiv(FromInt(n), FromInt(100))] : n \in 0..MaxRatioHundredths}

\* the points of a match are the ones the admin page stores for it: those of
\* calculateMatchPointsFromAmerican at odds 0, -150 and +120 with 1000 base points
MatchPointsInputs ==
  {[favorite_points |-> 1000, underdog_points |-> 1000],
   [favorite_points |-> 666, underdog_points |-> 1000],
   [favorite_points |-> 1000, underdog_points |-> 1199]}

MatchInputs ==
  {[favorite |-> f, winner |-> w, favorite_points |-> p.favorite_points,
    underdog_points |-> p.underdog_points] :
     f \in Wrestlers \cup {NULL}, w \in Wrestlers \cup {NULL}, p \in MatchPointsInputs}

\* the event totals do not read the winner
UndecidedMatches == {m \in MatchInputs : m.winner = NULL}

MatchCalls ==
  {[fn |-> "getPickingPoints", match |-> m] : m \in MatchInputs}
  \cup {[fn |-> "getWrestlerRole", match |-> m, wrestler |-> w] :
          m \in MatchInputs, w \in Wrestlers}
  \cup {[fn |-> "calculatePickPoints", match |-> m, pick |-> [selected_wrestler |-> w]] :
          m \in MatchInputs, w \in Wrestlers \cup {NULL}}
  \cup {[fn |-> "calculateEventPotential", matches |-> ms] :
          ms \in SeqsUpTo(UndecidedMatches, MaxMatches)}

\* an event with its results in, and single picks on decided matches
ScoreCalls ==
  {[fn |-> "calculateEventPotential", matches |-> ms] :
     ms \in SeqsUpTo(MatchInputs, MaxScoredMatches)}
  \cup {[fn |-> "calculatePickPoints", match |-> m, pick |-> [selected_wrestler |-> w]] :
          m \in MatchInputs, w \in Wrestlers \cup {NULL}}

\* a string of n characters c
Repeat(c, n) == [i \in 1..n |-> c]

\* names as typed into the forms: blank, padded, in either case, and of the
\* lengths around the limits
NameInputs(limit) ==
  {<<>>, <<" ">>, <<"a">>, <<"A">>, <<" ", "a", " ">>, <<"b">>, <<"a", "b">>, <<"A", "b">>}
  \cup {Repeat("a", n) : n \in {limit, limit + 1}}
  \cup {Repeat(" ", limit + 1)}

DateInputs ==
  {[text |-> "", time |-> 0], [text |-> "not a date", time |-> 0]}
  \cup {[text |-> "iso", time |-> t] : t \in 1..MaxDate}

\* NaN, the whole numbers from -1 on and some halves between them
NumberInputs ==
  {[nan |-> TRUE, tenths |-> 0]}
  \cup {[nan |-> FALSE, tenths |-> t] :
          t \in {n \in -10..MaxOrderTenths : n % 10 = 0 \/ n % 100 = 5}}

ValidationCalls ==
  {[fn |-> "validateEvent",
    data |-> [name |-> n, event_date |-> e, picks_deadline |-> d]] :
     n \in NameInputs(MaxEventNameLength), e \in DateInputs, d \in DateInputs}
  \cup {[fn |-> "validateMatch",
         data |-> [weight_class |-> w, wrestler_a |-> a, wrestler_b |-> b, match_order |-> o]] :
          w \in {<<>>, <<" ">>, <<"1", "2", "5">>}
                  \cup {Repeat("5", n) : n \in {MaxWeightClassLength, MaxWeightClassLength + 1}},
          a \in NameInputs(MaxWrestlerNameLength),
          b \in NameInputs(MaxWrestlerNameLength),
          o \in NumberInputs}

DescriptionCalls ==
  {[fn |-> "getAmericanOddsDescription", americanOdds |-> o, basePoints |-> b] :
     o \in ScoringOdds, b \in {MaxSmallBase, DefaultBasePoints}}

InitWith(calls) ==
  /\ pc = "call"
  /\ call \in calls
  /\ ret = <<>>
  /\ NoComponent
  /\ NoDatabase
  /\ NoAdminPage

Return(fn, value) ==
  /\ pc = "call"
  /\ call.fn = fn
  /\ ret' = value
  /\ pc' = "return"
  /\ UNCHANGED <<call, componentVars, databaseVars, adminVars>>

Returned(fn) == pc = "return" /\ call.fn = fn

CalculateBasePoints ==
  Return("calculateBasePoints", calculateBasePoints(call.americanOdds))

CalculatePotentialPoints ==
  Return("calculatePotentialPoints",
         calculatePotentialPoints(call.americanOdds, call.isDoubleDown))

CalculatePick6Points ==
  Return("calculatePick6Points", calculatePick6Points(call.sel))

ValidatePick6Entry ==
  Return("validatePick6Entry", validatePick6Entry(call.picks, call.requiredPickCount))

ValidateAmericanOdds ==
  Return("validateAmericanOdds", validateAmericanOdds(call.odds))

CalculateMatchPointsFromAmerican ==
  Return("calculateMatchPointsFromAmerican",
         calculateMatchPointsFromAmerican(call.americanOdds, call.basePoints))

CalculateMatchPoints ==
  Return("calculateMatchPoints", calculateMatchPoints(call.oddsRatio))

AmericanOddsToDecimal ==
  Return("americanOddsToDecimal",
         IF call.scale = 0 THEN americanOddsToDecimal(call.americanOdds)
         ELSE americanOddsToDecimalNumber(
                Sign(call.americanOdds),
                FScale(FromInt(Abs(call.americanOdds)), call.scale)))

DecimalToAmericanOdds ==
  Return("decimalToAmericanOdds", decimalToAmericanOdds(call.decimal))

GetPickingPoints == Return("getPickingPoints", getPickingPoints(call.match))

GetWrestlerRole == Return("getWrestlerRole", getWrestlerRole(call.match, call.wrestler))

CalculatePickPoints ==
  Return("calculatePickPoints", calculatePickPoints(call.match, call.pick))

CalculateEventPotential ==
  Return("calculateEventPotential", calculateEventPotential(call.matches))

ValidateEvent == Return("validateEvent", validateEvent(call.data))

ValidateMatch == Return("validateMatch", validateMatch(call.data))

\* lib/pick6-scoring.ts, scoring
InitPick6 == InitWith(Pick6Calls)
NextPick6 == CalculateBasePoints \/ CalculatePotentialPoints \/ CalculatePick6Points
SpecPick6 == InitPick6 /\ [][NextPick6]_vars

\* lib/pick6-scoring.ts, entry validation
InitEntry == InitWith(EntryCalls)
NextEntry == ValidatePick6Entry
SpecEntry == InitEntry /\ [][NextEntry]_vars

\* lib/points.ts, odds validation
InitOdds == InitWith(OddsCalls)
NextOdds == ValidateAmericanOdds
SpecOdds == InitOdds /\ [][NextOdds]_vars

\* lib/points.ts, match points
InitPoints == InitWith(PointsCalls)
NextPoints == CalculateMatchPointsFromAmerican \/ CalculateMatchPoints
SpecPoints == InitPoints /\ [][NextPoints]_vars

\* lib/points.ts, the points of an event with results
InitScore == InitWith(ScoreCalls)
NextScore == CalculateEventPotential \/ CalculatePickPoints
SpecScore == InitScore /\ [][NextScore]_vars

\* lib/points.ts, odds descriptions
GetAmericanOddsDescription ==
  Return("getAmericanOddsDescription",
         getAmericanOddsDescription(call.americanOdds, call.basePoints))

InitDescription == InitWith(DescriptionCalls)
NextDescription == GetAmericanOddsDescription
SpecDescription == InitDescription /\ [][NextDescription]_vars

\* lib/points.ts, odds conversions
InitConversion == InitWith(ConversionCalls)
NextConversion == AmericanOddsToDecimal \/ DecimalToAmericanOdds
SpecConversion == InitConversion /\ [][NextConversion]_vars

\* lib/points.ts, match picks
InitMatch == InitWith(MatchCalls)
NextMatch ==
  GetPickingPoints \/ GetWrestlerRole \/ CalculatePickPoints \/ CalculateEventPotential
SpecMatch == InitMatch /\ [][NextMatch]_vars

\* lib/validation.ts, event and match forms
InitValidation == InitWith(ValidationCalls)
NextValidation == ValidateEvent \/ ValidateMatch
SpecValidation == InitValidation /\ [][NextValidation]_vars

(***************************************************************************)
(* components/Pick6Interface: the fight card of one event, on which the    *)
(* user picks pickCount fighters, names a double down and submits.  The    *)
(* card shows the matches 1..MaxCardMatches; potentialPoints is counted    *)
(* in units of calculateBasePoints(fighter.americanOdds).  The queries of  *)
(* handleSubmit are taken to succeed.                                      *)
(***************************************************************************)
FighterOptions ==
  {[matchId |-> m, fighterPosition |-> w] : m \in 1..MaxCardMatches, w \in Wrestlers}

\* the id the database gives the selection row written for pick i
SelectionId(i) == MaxCardMatches + i

\* selectedPicks.findIndex(pick => pick.matchId === matchId), 0 for -1
FindPickIndex(picks, matchId) ==
  IF \E i \in 1..Len(picks) : picks[i].matchId = matchId
  THEN CHOOSE i \in 1..Len(picks) :
         /\ picks[i].matchId = matchId
         /\ \A j \in 1..(i - 1) : picks[j].matchId # matchId
  ELSE 0

\* newPicks.splice(i, 1)
Splice(picks, i) == SubSeq(picks, 1, i - 1) \o SubSeq(picks, i + 1, Len(picks))

NewPick(fighter) == [matchId |-> fighter.matchId, fighter |-> fighter, potentialPoints |-> 1]

\* faulty variant: a new pick is added whatever the number of picks
newPicks_NoLimit(picks, fighter) ==
  LET existingPickIndex == FindPickIndex(picks, fighter.matchId)
  IN  IF existingPickIndex > 0
      THEN IF picks[existingPickIndex].fighter.fighterPosition = fighter.fighterPosition
           THEN Splice(picks, existingPickIndex)
           ELSE [picks EXCEPT ![existingPickIndex] = NewPick(fighter)]
      ELSE Append(picks, NewPick(fighter))

\* newPicks at the call of setSelectedPicks in handleFighterSelect
newPicks(picks, fighter) ==
  LET existingPickIndex == FindPickIndex(picks, fighter.matchId)
  IN  IF existingPickIndex > 0
      THEN IF picks[existingPickIndex].fighter.fighterPosition = fighter.fighterPosition
           THEN Splice(picks, existingPickIndex)
           ELSE [picks EXCEPT ![existingPickIndex] = NewPick(fighter)]
      ELSE IF Len(picks) < pickCount THEN Append(picks, NewPick(fighter))
      ELSE picks

\* the double down modal is rendered; it lies over the whole card
ModalShown ==
  showDoubleDown /\ Len(selectedPicks) = pickCount /\ ~existingEntry.is_complete

Handled(fn, args) ==
  /\ pc = "mounted"
  /\ pc' = pc
  /\ call' = [fn |-> fn, args |-> args]
  /\ UNCHANGED <<ret, adminVars>>

HandleFighterSelect(fighter) ==
  /\ ~ModalShown
  /\ Handled("handleFighterSelect", fighter)
  /\ IF existingEntry.is_complete
     THEN UNCHANGED <<selectedPicks, showDoubleDown, doubleDownPickId>>
     ELSE LET picks == newPicks(selectedPicks, fighter)
          IN  /\ selectedPicks' = picks
              /\ showDoubleDown' =
                   (IF Len(picks) = pickCount /\ ~showDoubleDown THEN TRUE
                    ELSE IF Len(picks) < pickCount /\ showDoubleDown THEN FALSE
                    ELSE showDoubleDown)
              /\ doubleDownPickId' =
                   (IF Len(picks) < pickCount /\ showDoubleDown THEN NullId
                    ELSE doubleDownPickId)
  /\ UNCHANGED <<existingEntry, databaseVars>>

HandleDoubleDownSelect(pickIndex) ==
  /\ ModalShown
  /\ pickIndex \in 1..Len(selectedPicks)
  /\ Handled("handleDoubleDownSelect", pickIndex)
  /\ doubleDownPickId' = selectedPicks[pickIndex].matchId
  /\ selectedPicks' =
       [index \in 1..Len(selectedPicks) |->
          [selectedPicks[index] EXCEPT !.potentialPoints = IF index = pickIndex THEN 2 ELSE 1]]
  /\ UNCHANGED <<showDoubleDown, existingEntry, databaseVars>>

\* Cancel in the modal
CancelDoubleDown ==
  /\ ModalShown
  /\ Handled("setShowDoubleDown", FALSE)
  /\ showDoubleDown' = FALSE
  /\ UNCHANGED <<selectedPicks, doubleDownPickId, existingEntry, databaseVars>>

\* SUBMIT PICKS under the card
OpenDoubleDown ==
  /\ Len(selectedPicks) = pickCount
  /\ ~showDoubleDown
  /\ ~existingEntry.is_complete
  /\ Handled("setShowDoubleDown", TRUE)
  /\ showDoubleDown' = TRUE
  /\ UNCHANGED <<selectedPicks, doubleDownPickId, existingEntry, databaseVars>>

\* the rows handleSubmit writes for the picks
SelectionsData(picks, entryId, doubleDown) ==
  [i \in 1..Len(picks) |->
     [id |-> SelectionId(i), pick6_entry_id |-> entryId, match_id |-> picks[i].matchId,
      fighter_id |-> picks[i].fighter.fighterPosition,
      is_double_down |-> picks[i].matchId = doubleDown]]

\* the id of the selection of the entry on a match, NullId without one
DoubleDownSelection(selections, matchId) ==
  IF \E i \in 1..Len(selections) : selections[i].match_id = matchId
  THEN (CHOOSE r \in {selections[i] : i \in 1..Len(selections)} : r.match_id = matchId).id
  ELSE NullId

\* Submit Picks in the modal, with the fetchEventData that follows the writes
HandleSubmit ==
  /\ ModalShown
  /\ doubleDownPickId # NullId
  /\ Handled("handleSubmit", <<>>)
  /\ IF \/ Len(selectedPicks) # pickCount
        \/ doubleDownPickId = NullId
        \/ ~validatePick6Entry([i \in 1..Len(selectedPicks) |->
                                  [match_id |-> selectedPicks[i].matchId]], pickCount).isValid
     THEN UNCHANGED <<componentVars, databaseVars>>
     ELSE LET selections == SelectionsData(selectedPicks, 1, doubleDownPickId)
              entry == [id |-> 1, is_complete |-> TRUE,
                        double_down_pick_id |->
                          DoubleDownSelection(selections, doubleDownPickId)]
          IN  /\ pick6_entries' = <<entry>>
              /\ pick6_selections' = selections
              /\ existingEntry' = entry
              /\ selectedPicks' =
                   [i \in 1..Len(selections) |->
                      [matchId |-> selections[i].match_id,
                       fighter |-> [matchId |-> selections[i].match_id,
                                    fighterPosition |-> selections[i].fighter_id],
                       potentialPoints |-> IF selections[i].is_double_down THEN 2 ELSE 1]]
              /\ doubleDownPickId' = entry.double_down_pick_id
              /\ showDoubleDown' = FALSE
              /\ UNCHANGED matchesTable

\* the component after fetchEventData found no entry of the user
InitComponent ==
  /\ pc = "mounted"
  /\ call = <<>>
  /\ ret = <<>>
  /\ NoComponent
  /\ NoDatabase
  /\ NoAdminPage

NextComponent ==
  \/ \E fighter \in FighterOptions : HandleFighterSelect(fighter)
  \/ \E pickIndex \in 1..pickCount : HandleDoubleDownSelect(pickIndex)
  \/ CancelDoubleDown
  \/ OpenDoubleDown
  \/ HandleSubmit

SpecComponent == InitComponent /\ [][NextComponent]_vars

(***************************************************************************)
(* The Pick 6 tables under the trigger trigger_update_pick6_points, which  *)
(* runs update_pick6_points_on_result_change after every update of winner  *)
(* or finish_type on a match.  The admin page records and resets results.  *)
(* DECIMAL(10,1) values are counted in tenths; a nullable boolean is       *)
(* "true", "false" or NULL.                                                *)
(***************************************************************************)
SqlTrue == "true"
SqlFalse == "false"

\* ROUND(n / d, 1) in tenths, for n >= 0 and d > 0: halves go up
SqlRoundTenths(n, d) == (20 * n + d) \div (2 * d)

\* calculate_pick6_points, called with p_is_winner not null
calculate_pick6_points(p_american_odds, p_is_winner, p_finish_type, p_is_double_down) ==
  IF p_is_winner # SqlTrue
  THEN [base_points |-> 0, finish_bonus |-> 0, underdog_bonus |-> 0,
        double_down_multiplier |-> 1, total_points |-> 0]
  ELSE LET v_base_points == IF p_american_odds > 0 THEN 10 * p_american_odds
                            ELSE SqlRoundTenths(10000, Abs(p_american_odds))
           v_finish_bonus == IF p_finish_type # NULL /\ p_finish_type # "decision"
                             THEN 500 ELSE 0
           v_underdog_bonus == IF p_american_odds >= 100
                               THEN (v_base_points + 5) \div 10 ELSE 0
           v_double_down_multiplier == IF p_is_double_down THEN 2 ELSE 1
           v_subtotal == v_base_points + v_finish_bonus + v_underdog_bonus
       IN  [base_points |-> v_base_points, finish_bonus |-> v_finish_bonus,
            underdog_bonus |-> v_underdog_bonus,
            double_down_multiplier |-> v_double_down_multiplier,
            total_points |-> v_subtotal * v_double_down_multiplier]

\* first UPDATE of the trigger: is_winner of the selections on the match
WinnersMarked(selections, newRow) ==
  [i \in 1..Len(selections) |->
     IF selections[i].match_id # newRow.id THEN selections[i]
     ELSE [selections[i] EXCEPT !.is_winner =
             IF newRow.winner = NULL THEN NULL
             ELSE IF newRow.winner = selections[i].fighter_id THEN SqlTrue
             ELSE SqlFalse]]

\* second UPDATE of the trigger: the points of the selections on the match
\* whose is_winner is not null
PointsRecalculated(selections, newRow) ==
  [i \in 1..Len(selections) |->
     IF selections[i].match_id # newRow.id \/ selections[i].is_winner = NULL THEN selections[i]
     ELSE LET calc == calculate_pick6_points(selections[i].american_odds,
                                             selections[i].is_winner, newRow.finish_type,
                                             selections[i].is_double_down)
          IN  [selections[i] EXCEPT !.base_points = calc.base_points,
                                    !.finish_bonus = calc.finish_bonus,
                                    !.underdog_bonus = calc.underdog_bonus,
                                    !.double_down_multiplier = calc.double_down_multiplier,
                                    !.final_points = calc.total_points]]

\* SUM(final_points) over the rows of index i and more that pass the filter
RECURSIVE SumFinalPoints(_, _, _, _)
SumFinalPoints(selections, i, entryId, winnersOnly) ==
  IF i > Len(selections) THEN 0
  ELSE (IF /\ selections[i].pick6_entry_id = entryId
           /\ winnersOnly => selections[i].is_winner = SqlTrue
        THEN selections[i].final_points ELSE 0)
       + SumFinalPoints(selections, i + 1, entryId, winnersOnly)

CountWinners(selections, entryId) ==
  Cardinality({i \in 1..Len(selections) :
                 selections[i].pick6_entry_id = entryId /\ selections[i].is_winner = SqlTrue})

\* third UPDATE of the trigger: the totals of the entries with a selection
\* on the match
TotalsUpdated(entries, selections, newRow) ==
  [e \in 1..Len(entries) |->
     IF \E i \in 1..Len(selections) :
          selections[i].match_id = newRow.id /\ selections[i].pick6_entry_id = entries[e].id
     THEN [entries[e] EXCEPT
             !.total_points = SumFinalPoints(selections, 1, entries[e].id, FALSE),
             !.picks_correct = CountWinners(selections, entries[e].id)]
     ELSE entries[e]]

\* UPDATE matches SET winner, finish_type, is_complete WHERE id = matchId,
\* and the trigger on the updated row
UpdateResult(matchId, winner, finish_type, is_complete) ==
  LET newRow == [matchesTable[matchId] EXCEPT !.winner = winner, !.finish_type = finish_type,
                                           !.is_complete = is_complete]
      selections == PointsRecalculated(WinnersMarked(pick6_selections, newRow), newRow)
  IN  /\ matchesTable' = [matchesTable EXCEPT ![matchId] = newRow]
      /\ pick6_selections' = selections
      /\ pick6_entries' = TotalsUpdated(pick6_entries, selections, newRow)

ResultHandled(fn, args) ==
  /\ pc = "results"
  /\ pc' = pc
  /\ call' = [fn |-> fn, args |-> args]
  /\ UNCHANGED <<ret, componentVars, adminVars>>

HandleRecordResult(matchId, winner, finishType) ==
  /\ ResultHandled("handleRecordResult", <<matchId, winner, finishType>>)
  /\ UpdateResult(matchId, winner, finishType, TRUE)

\* Reset Result, shown on a completed match
ResetResult(matchId) ==
  /\ matchesTable[matchId].is_complete
  /\ ResultHandled("Reset Result", <<matchId>>)
  /\ UpdateResult(matchId, NULL, NULL, FALSE)

\* two fights of a Pick 6 event, the row of match i at index i
OpenMatches ==
  <<[id |-> 1, american_odds_a |-> -150, american_odds_b |-> 130,
     winner |-> NULL, finish_type |-> NULL, is_complete |-> FALSE],
    [id |-> 2, american_odds_a |-> 250, american_odds_b |-> -300,
     winner |-> NULL, finish_type |-> NULL, is_complete |-> FALSE]>>

\* the selection of an entry on a match as handleSubmit and the column
\* defaults leave it
SubmittedSelection(entryId, match, fighter, doubleDown) ==
  LET odds == IF fighter = "A" THEN match.american_odds_a ELSE match.american_odds_b
  IN  [id |-> Len(OpenMatches) * (entryId - 1) + match.id, pick6_entry_id |-> entryId,
       match_id |-> match.id, fighter_id |-> fighter, american_odds |-> odds,
       is_double_down |-> doubleDown = match.id, is_winner |-> NULL,
       base_points |-> IF odds > 0 THEN 10 * odds ELSE SqlRoundTenths(10000, -odds),
       finish_bonus |-> 0, underdog_bonus |-> 0, double_down_multiplier |-> 1,
       final_points |-> 0]

\* every entry picks one fighter of each fight and doubles one of its picks
InitResults ==
  /\ pc = "results"
  /\ call = <<>>
  /\ ret = <<>>
  /\ NoComponent
  /\ NoAdminPage
  /\ matchesTable = OpenMatches
  /\ pick6_entries = [e \in 1..MaxEntries |-> [id |-> e, total_points |-> 0, picks_correct |-> 0]]
  /\ \E fighters \in [1..MaxEntries -> [1..Len(OpenMatches) -> Wrestlers]],
        doubleDowns \in [1..MaxEntries -> 1..Len(OpenMatches)] :
       pick6_selections =
         [k \in 1..(MaxEntries * Len(OpenMatches)) |->
            LET e == ((k - 1) \div Len(OpenMatches)) + 1
                m == ((k - 1) % Len(OpenMatches)) + 1
            IN  SubmittedSelection(e, OpenMatches[m], fighters[e][m], doubleDowns[e])]

\* the loop body of the fallback of handleRecalculatePoints on a winning
\* selection: JavaScript numbers, whole by construction
RecalculatedWinner(winner, matchData) ==
  LET basePoints == IF winner.american_odds >= 0 THEN winner.american_odds
                    ELSE MathFloor(FDiv(FromInt(10000), FromInt(Abs(winner.american_odds))))
      finishBonus == IF matchData.finish_type \in {"ko_tko", "submission"} THEN 50 ELSE 0
      underdogBonus == IF winner.american_odds >= 100
                       THEN MathFloor(FMul(FromInt(basePoints), Tenth)) ELSE 0
      finalPoints == (basePoints + finishBonus + underdogBonus)
                       * (IF winner.is_double_down THEN 2 ELSE 1)
  IN  [base_points |-> basePoints, finish_bonus |-> finishBonus,
       underdog_bonus |-> underdogBonus, final_points |-> finalPoints]

\* the fallback on the selections of one completed match: points reset,
\* winners and losers set, the winners' points written (in tenths)
MatchRecalculated(selections, match) ==
  [i \in 1..Len(selections) |->
     IF selections[i].match_id # match.id THEN selections[i]
     ELSE LET cleared == [selections[i] EXCEPT !.base_points = 0, !.finish_bonus = 0,
                                               !.underdog_bonus = 0, !.final_points = 0,
                                               !.is_winner = NULL]
              points == RecalculatedWinner(cleared, match)
          IN  IF match.winner = NULL THEN cleared
              ELSE IF cleared.fighter_id # match.winner
              THEN [cleared EXCEPT !.is_winner = SqlFalse]
              ELSE [cleared EXCEPT !.is_winner = SqlTrue,
                                   !.base_points = 10 * points.base_points,
                                   !.finish_bonus = 10 * points.finish_bonus,
                                   !.underdog_bonus = 10 * points.underdog_bonus,
                                   !.final_points = 10 * points.final_points]]

RECURSIVE CompletedRecalculated(_, _, _)
CompletedRecalculated(selections, completedMatches, m) ==
  IF m > Len(completedMatches) THEN selections
  ELSE CompletedRecalculated(
         IF completedMatches[m].is_complete
         THEN MatchRecalculated(selections, completedMatches[m]) ELSE selections,
         completedMatches, m + 1)

\* Recalculate Points when the rpc exec_sql fails: the direct updates, none
\* of them on the table matches, then the totals of every entry
HandleRecalculatePoints ==
  \E selections \in {CompletedRecalculated(pick6_selections, matchesTable, 1)} :
      /\ ResultHandled("handleRecalculatePoints", <<>>)
      /\ pick6_selections' = selections
      /\ pick6_entries' =
           [e \in 1..Len(pick6_entries) |->
              [pick6_entries[e] EXCEPT
                 !.total_points = SumFinalPoints(selections, 1, pick6_entries[e].id, FALSE),
                 !.picks_correct = CountWinners(selections, pick6_entries[e].id)]]
      /\ UNCHANGED matchesTable

NextResults ==
  \/ \E matchId \in 1..Len(OpenMatches), winner \in Wrestlers,
        finishType \in FinishTypes \ {NULL} :
       HandleRecordResult(matchId, winner, finishType)
  \/ \E matchId \in 1..Len(OpenMatches) : ResetResult(matchId)

SpecResults == InitResults /\ [][NextResults]_vars

\* the same tables with the admin's Recalculate Points
NextRecalculate ==
  \/ \E matchId \in 1..Len(OpenMatches), winner \in Wrestlers,
        finishType \in FinishTypes \ {NULL} :
       HandleRecordResult(matchId, winner, finishType)
  \/ HandleRecalculatePoints

SpecRecalculate == InitResults /\ [][NextRecalculate]_vars

(***************************************************************************)
(* The admin page on an event of traditional match picks: the form of a    *)
(* new match, the stored match and the form that edits it.  The names,     *)
(* the weight class and the order are taken to be valid and are left out;  *)
(* the queries are taken to succeed.                                       *)
(***************************************************************************)
\* floor(x * k + 1/2) for a finite x >= 0 and 0 < k < LimbBase / 2
RoundScaledInt(x, k) ==
  IF x.e >= 0 THEN k * BToInt(BShl(x.m, x.e))
  ELSE BToInt(BShr(BAdd(BMulSmall(x.m, 2 * k), BShl(<<1>>, -x.e)), 1 - x.e))

\* the hundredths a DECIMAL(5,2) column holds for the number x sent as JSON:
\* the shortest decimal text that reads back as x, rounded half up
DecimalColumn(x) ==
  LET thousandths == RoundScaledInt(x, 1000)
  IN  IF FDiv(FromInt(thousandths), FromInt(1000)) = x THEN (thousandths + 5) \div 10
      ELSE RoundScaledInt(x, 100)

\* the number read from a DECIMAL(5,2) column
NumberOfColumn(hundredths) == FDiv(FromInt(hundredths), Hundred)

DefaultMatchForm ==
  [favorite |-> "A", odds_ratio |-> One, american_odds |-> 0, base_points |-> DefaultBasePoints]

\* odds and base points typed into the form
AdminOdds == {o \in ScoringOdds : Abs(o) % OddsStep = 0 /\ validateAmericanOdds(o).isValid}
AdminBasePoints == {7, DefaultBasePoints}

AdminHandled(fn, args) ==
  /\ pc = "admin"
  /\ pc' = pc
  /\ call' = [fn |-> fn, args |-> args]
  /\ UNCHANGED <<ret, componentVars, pick6_entries, pick6_selections>>

\* a change of the field american_odds or base_points of the new match; a
\* field is typed while it still holds its default, to keep the forms finite
HandleMatchFormChange(name, value) ==
  /\ matchesTable = <<>>
  /\ matchForm[name] = DefaultMatchForm[name]
  /\ \/ name = "american_odds" /\ value \in AdminOdds
     \/ name = "base_points" /\ value \in AdminBasePoints
  /\ AdminHandled("handleMatchFormChange", <<name, value>>)
  /\ matchForm' =
       (IF name = "american_odds"
        THEN [matchForm EXCEPT !.american_odds = value,
                               !.odds_ratio = americanOddsToDecimal(value)]
        ELSE [matchForm EXCEPT !.base_points = IF value # 0 THEN value ELSE DefaultBasePoints])
  /\ UNCHANGED <<matchesTable, editMatchForm, editingMatchId, saves>>

\* the legacy fields both handlers write from their form
LegacyRow(form, points) ==
  [favorite |-> form.favorite, odds_ratio |-> DecimalColumn(form.odds_ratio),
   favorite_points |-> points.favorite_points,
   underdog_points |-> points.underdog_points]

LegacyFields(form) ==
  LegacyRow(form, calculateMatchPointsFromAmerican(
                    form.american_odds,
                    IF form.base_points # 0 THEN form.base_points ELSE DefaultBasePoints))

\* the form whose submit button can be pressed
SubmittedForm == IF editingMatchId # NullId THEN editMatchForm ELSE matchForm

\* matchData is LegacyFields(matchForm)
HandleAddMatch(matchData) ==
  /\ matchesTable = <<>>
  /\ AdminHandled("handleAddMatch", <<>>)
  /\ matchesTable' = <<[id |-> 1] @@ matchData>>
  /\ matchForm' = DefaultMatchForm
  /\ UNCHANGED <<editMatchForm, editingMatchId, saves>>

HandleEditClick(match) ==
  /\ editingMatchId = NullId
  /\ saves < MaxSaves
  /\ AdminHandled("handleEditClick", match.id)
  /\ editingMatchId' = match.id
  /\ editMatchForm' =
       [favorite |-> IF match.favorite # NULL THEN match.favorite ELSE "A",
        odds_ratio |-> NumberOfColumn(match.odds_ratio),
        american_odds |-> decimalToAmericanOdds(NumberOfColumn(match.odds_ratio)),
        base_points |-> IF match.underdog_points # 0 THEN match.underdog_points
                        ELSE DefaultBasePoints]
  /\ UNCHANGED <<matchesTable, matchForm, saves>>

\* updateData is LegacyFields(editMatchForm)
HandleUpdateMatch(updateData) ==
  /\ editingMatchId # NullId
  /\ AdminHandled("handleUpdateMatch", <<>>)
  /\ matchesTable' = [matchesTable EXCEPT ![editingMatchId] = [id |-> @.id] @@ updateData]
  /\ editingMatchId' = NullId
  /\ saves' = saves + 1
  /\ UNCHANGED <<matchForm, editMatchForm>>

InitAdmin ==
  /\ pc = "admin"
  /\ call = <<>>
  /\ ret = <<>>
  /\ NoComponent
  /\ NoDatabase
  /\ matchForm = DefaultMatchForm
  /\ editMatchForm = DefaultMatchForm
  /\ editingMatchId = NullId
  /\ saves = 0

NextAdmin ==
  \/ \E value \in AdminOdds : HandleMatchFormChange("american_odds", value)
  \/ \E value \in AdminBasePoints : HandleMatchFormChange("base_points", value)
  \/ \E data \in {LegacyFields(SubmittedForm)} :
       HandleAddMatch(data) \/ HandleUpdateMatch(data)
  \/ \E i \in 1..Len(matchesTable) : HandleEditClick(matchesTable[i])

SpecAdmin == InitAdmin /\ [][NextAdmin]_vars

Init ==
  \/ InitPick6 \/ InitEntry \/ InitOdds \/ InitPoints \/ InitConversion \/ InitMatch
  \/ InitScore \/ InitDescription \/ InitValidation
  \/ InitComponent \/ InitResults \/ InitAdmin
Next ==
  \/ NextPick6 \/ NextEntry \/ NextOdds \/ NextPoints \/ NextConversion \/ NextMatch
  \/ NextScore \/ NextDescription \/ NextValidation
  \/ NextComponent \/ NextResults \/ NextRecalculate \/ NextAdmin
Spec == Init /\ [][Next]_vars


(***************************************************************************)
(* Decimal reference values.  A point value with one decimal is written as *)
(* an integer number of tenths; Dec1(t) is the binary64 value of the       *)
(* decimal t / 10, the value a test or a reader means by e.g. 66.7.        *)
(***************************************************************************)
Dec1(t) == FDiv(FromInt(t), Ten)

\* n / d rounded to the nearest integer, halves up, for n >= 0 and d > 0
RoundHalfUp(n, d) == (2 * n + d) \div (2 * d)

\* basePoints(o) in tenths, for o # 0
BasePointsTenths(o) == IF o > 0 THEN 10 * o ELSE RoundHalfUp(100000, Abs(o))

FinishBonusTenths(f) == IF f \in {"ko_tko", "submission"} THEN 500 ELSE 0

UnderdogBonusTenths(o) == IF o >= 100 THEN RoundHalfUp(BasePointsTenths(o), 10) ELSE 0

C2_LosingSelectionScoresZero ==
  (Returned("calculatePick6Points") /\ ~call.sel.isWinner) =>
    /\ ret.base_points = FZero
    /\ ret.finish_bonus = FZero
    /\ ret.underdog_bonus = FZero
    /\ ret.total_points = FZero

\* a losing doubled-down underdog with a knockout finish has been scored
C2_Witness ==
  /\ Returned("calculatePick6Points")
  /\ call.sel = [americanOdds |-> 150, isWinner |-> FALSE, finishType |-> "ko_tko",
                 isDoubleDown |-> TRUE]
  /\ ret.total_points = FZero

(***************************************************************************)
(* C6: calculateBasePoints(o) is o itself for o > 0 and 10000 / |o|        *)
(* rounded to one decimal for o < 0, for odds inside and outside the range *)
(* validateAmericanOdds accepts (nothing is clamped).                      *)
(***************************************************************************)
C6_BasePointsRule ==
  (Returned("calculateBasePoints") /\ call.americanOdds # 0) =>
    IF call.americanOdds > 0
    THEN ret = FromInt(call.americanOdds)
    ELSE ret = Dec1(RoundHalfUp(100000, Abs(call.americanOdds)))

\* basePoints(-150) has returned 66.7
C6_Witness ==
  /\ Returned("calculateBasePoints")
  /\ call.americanOdds = -150
  /\ ret = Dec1(667)

(***************************************************************************)
(* C7: for every odds value validateAmericanOdds accepts, 0 included,      *)
(* calculateBasePoints, calculatePotentialPoints and calculatePick6Points  *)
(* of a winning selection return a finite number.                          *)
(***************************************************************************)
C7_AcceptedOddsScoreFinite ==
  /\ (Returned("calculateBasePoints") /\ validateAmericanOdds(call.americanOdds).isValid)
       => IsFinite(ret)
  /\ (Returned("calculatePotentialPoints") /\ validateAmericanOdds(call.americanOdds).isValid)
       => IsFinite(ret)
  /\ (/\ Returned("calculatePick6Points")
      /\ call.sel.isWinner
      /\ validateAmericanOdds(call.sel.americanOdds).isValid)
       => IsFinite(ret.base_points) /\ IsFinite(ret.total_points)

(***************************************************************************)
(* C8: calculatePotentialPoints(o, d) equals the total_points of           *)
(* calculatePick6Points for the winning ko_tko selection with the same o   *)
(* and d, and is at least the total_points of every selection with the     *)
(* same o and d, whatever isWinner and the finish type.                    *)
(***************************************************************************)
C8_PotentialIsBestCase ==
  Returned("calculatePick6Points") =>
    LET potential ==
          calculatePotentialPoints(call.sel.americanOdds, call.sel.isDoubleDown)
    IN  /\ (call.sel.isWinner /\ call.sel.finishType = "ko_tko")
              => ret.total_points = potential
        /\ FLeq(ret.total_points, potential)

\* a winner by decision has scored strictly less than the potential
C8_Witness ==
  /\ Returned("calculatePick6Points")
  /\ call.sel = [americanOdds |-> -150, isWinner |-> TRUE, finishType |-> "decision",
                 isDoubleDown |-> TRUE]
  /\ ret.total_points = Dec1(1334)
  /\ calculatePotentialPoints(-150, TRUE) = Dec1(2334)


(***************************************************************************)
(* C9: validatePick6Entry(picks, requiredCount) is valid exactly when      *)
(* picks has requiredCount elements and no two picks share a match_id; the *)
(* two checks are independent and cumulative: each violated check adds its *)
(* own message, the count message first.                                   *)
(***************************************************************************)
C9_EntryValidation ==
  Returned("validatePick6Entry") =>
    LET countOk == Len(call.picks) = call.requiredPickCount
        unique  == \A i, j \in 1..Len(call.picks) :
                     i # j => call.picks[i].match_id # call.picks[j].match_id
    IN  /\ ret.isValid = (countOk /\ unique)
        /\ ret.errors =
             (IF countOk THEN <<>> ELSE <<ErrPickCount(call.requiredPickCount)>>)
             \o (IF unique THEN <<>> ELSE <<ErrDuplicateMatch>>)

\* a list with the wrong count and a duplicated match has got both messages
C9_Witness ==
  /\ Returned("validatePick6Entry")
  /\ call.picks = <<[match_id |-> 1], [match_id |-> 1]>>
  /\ call.requiredPickCount = 3
  /\ ret = [isValid |-> FALSE, errors |-> <<ErrPickCount(3), ErrDuplicateMatch>>]

(***************************************************************************)
(* C10: validateAmericanOdds(o) is valid exactly when o = 0 or             *)
(* 100 <= |o| <= 10000; an invalid o gets exactly one error message, that  *)
(* of the first violated rule (positive below 100, negative above -100,    *)
(* magnitude above 10000), and a valid o gets none.                        *)
(***************************************************************************)
C10_OddsValidation ==
  Returned("validateAmericanOdds") =>
    LET o == call.odds
        valid == o = 0 \/ (100 <= Abs(o) /\ Abs(o) <= 10000)
    IN  /\ ret.isValid = valid
        /\ valid => DOMAIN ret = {"isValid"}
        /\ ~valid =>
             /\ DOMAIN ret = {"isValid", "error"}
             /\ ret.error = IF 0 < o /\ o < 100 THEN ErrPositiveOdds
                            ELSE IF -100 < o /\ o < 0 THEN ErrNegativeOdds
                            ELSE ErrOddsTooLarge

\* validateAmericanOdds(15000) has failed on the magnitude rule
C10_Witness ==
  /\ Returned("validateAmericanOdds")
  /\ call.odds = 15000
  /\ ret = [isValid |-> FALSE, error |-> ErrOddsTooLarge]

(***************************************************************************)
(* The implied probabilities of American odds o, |o| > 5, as fractions of  *)
(* |o| + 100: the favorite wins with |o| / (|o| + 100) and the underdog    *)
(* with 100 / (|o| + 100), whichever side the sign of o names.             *)
(* ExpectedValueGap is |pF * favorite_points - pU * underdog_points|       *)
(* multiplied by |o| + 100.                                                *)
(***************************************************************************)
ExpectedValueGap(o, r) == Abs(Abs(o) * r.favorite_points - 100 * r.underdog_points)

AcceptedOdds(o) == o = 0 \/ (100 <= Abs(o) /\ Abs(o) <= MaxValidOdds)

BalancedCall ==
  /\ Returned("calculateMatchPointsFromAmerican")
  /\ call.basePoints = DefaultBasePoints
  /\ AcceptedOdds(call.americanOdds)
  /\ Abs(call.americanOdds) > 5

(***************************************************************************)
(* C3 as claimed: for every accepted odds o with |o| > 5 and               *)
(* basePoints = 1000,                                                      *)
(* |favoriteWinProbability * favorite_points                               *)
(*  - underdogWinProbability * underdog_points| <= 2.                      *)
(***************************************************************************)
C3_BalancedWithinTwo ==
  BalancedCall => ExpectedValueGap(call.americanOdds, ret) <= 2 * (Abs(call.americanOdds) + 100)

(***************************************************************************)
(* C3 as amended: the same bound for every accepted odds o with |o| > 5    *)
(* and o >= -1022, basePoints = 1000.  From -1023 on the 10% floor lifts   *)
(* favorite_points to 100 and the gap exceeds 2.                           *)
(***************************************************************************)
C3_BalancedWithinTwoUnlessFloored ==
  (BalancedCall /\ call.americanOdds >= -1022) =>
    ExpectedValueGap(call.americanOdds, ret) <= 2 * (Abs(call.americanOdds) + 100)

\* -150 has returned 666 / 1000
C3_Witness ==
  /\ BalancedCall
  /\ call.americanOdds = -150
  /\ ret.favorite_points = 666
  /\ ret.underdog_points = 1000

(***************************************************************************)
(* C4: the underdog is worth at least as much as the favorite: for every   *)
(* ratio r in calculateMatchPoints(r), and for every accepted odds o and   *)
(* basePoints >= 1 in calculateMatchPointsFromAmerican(o, basePoints).     *)
(***************************************************************************)
C4_UnderdogWorthAtLeastFavorite ==
  /\ Returned("calculateMatchPoints") => ret.underdog_points >= ret.favorite_points
  /\ (/\ Returned("calculateMatchPointsFromAmerican")
      /\ AcceptedOdds(call.americanOdds)
      /\ call.basePoints >= 1)
       => ret.underdog_points >= ret.favorite_points

\* +120 with base 1000 has returned 1000 / 1199
C4_Witness ==
  /\ Returned("calculateMatchPointsFromAmerican")
  /\ call.americanOdds = 120
  /\ call.basePoints = DefaultBasePoints
  /\ ret.favorite_points = 1000
  /\ ret.underdog_points = 1199

RoundTripCall ==
  Returned("americanOddsToDecimal") /\ call.scale = 0 /\ AcceptedOdds(call.americanOdds)

(***************************************************************************)
(* C11 as claimed: for every American odds o accepted by                   *)
(* validateAmericanOdds, decimalToAmericanOdds(americanOddsToDecimal(o))   *)
(* differs from o by at most 1.                                            *)
(***************************************************************************)
C11_RoundTripWithinOne ==
  RoundTripCall => Abs(decimalToAmericanOdds(ret) - call.americanOdds) <= 1

(***************************************************************************)
(* C11 as amended: the round trip returns o within 1 for every accepted o  *)
(* other than -100; -100 has the decimal ratio 2.0 of +100 and comes back  *)
(* as +100.                                                                *)
(***************************************************************************)
C11_RoundTripExceptMinus100 ==
  RoundTripCall =>
    IF call.americanOdds = -100
    THEN ret = Two /\ decimalToAmericanOdds(ret) = 100
    ELSE Abs(decimalToAmericanOdds(ret) - call.americanOdds) <= 1

C11_Witness ==
  /\ RoundTripCall
  /\ call.americanOdds = -150
  /\ ret # One
  /\ FLess(ret, Two)
  /\ decimalToAmericanOdds(ret) = -150

C13_PickPoints ==
  Returned("calculatePickPoints") =>
    LET match == call.match
        side  == call.pick.selected_wrestler
    IN  IF match.winner = NULL \/ side = NULL \/ side # match.winner
        THEN ret = 0
        ELSE /\ (side = match.favorite => ret = match.favorite_points)
             /\ (match.favorite # NULL /\ side # match.favorite
                   => ret = match.underdog_points)
             /\ (match.favorite = NULL => ret = 500)

C13_Witness ==
  /\ Returned("calculatePickPoints")
  /\ call.match.favorite = "A"
  /\ call.match.winner = "B"
  /\ call.pick.selected_wrestler = "B"
  /\ call.match.favorite_points = 666
  /\ ret = 1000

OtherWrestler(w) == IF w = "A" THEN "B" ELSE "A"

(***************************************************************************)
(* C14: without a recorded favorite getWrestlerRole is 'even' for both     *)
(* sides and getPickingPoints gives 500 to both; with one, exactly one     *)
(* side is 'favorite' and the other 'underdog', and getPickingPoints gives *)
(* the favorite side favorite_points and the other side underdog_points.   *)
(***************************************************************************)
C14_RoleAndPointsConsistent ==
  /\ Returned("getWrestlerRole") =>
       LET match == call.match
           other == getWrestlerRole(match, OtherWrestler(call.wrestler))
       IN  IF match.favorite = NULL
           THEN ret = "even" /\ other = "even"
           ELSE /\ {ret, other} = {"favorite", "underdog"}
                /\ (ret = "favorite" <=> call.wrestler = match.favorite)
  /\ Returned("getPickingPoints") =>
       LET match == call.match
       IN  IF match.favorite = NULL
           THEN ret = [wrestler_a |-> 500, wrestler_b |-> 500]
           ELSE /\ (getWrestlerRole(match, "A") = "favorite"
                      => ret = [wrestler_a |-> match.favorite_points,
                                wrestler_b |-> match.underdog_points])
                /\ (getWrestlerRole(match, "B") = "favorite"
                      => ret = [wrestler_a |-> match.underdog_points,
                                wrestler_b |-> match.favorite_points])

C14_Witness ==
  /\ Returned("getPickingPoints")
  /\ call.match.favorite = "B"
  /\ call.match.favorite_points = 666
  /\ ret = [wrestler_a |-> 1000, wrestler_b |-> 666]

RECURSIVE SumSeq(_)
SumSeq(q) == IF q = <<>> THEN 0 ELSE q[Len(q)] + SumSeq(SubSeq(q, 1, Len(q) - 1))

\* the sum over the matches of one value per match
SumOverMatches(matches, Value(_)) == SumSeq([i \in 1..Len(matches) |-> Value(matches[i])])

HigherPoints(match) ==
  Max(getPickingPoints(match).wrestler_a, getPickingPoints(match).wrestler_b)
LowerPoints(match) ==
  Min(getPickingPoints(match).wrestler_a, getPickingPoints(match).wrestler_b)
FavoritePointsOr500(match) ==
  IF match.favorite = NULL THEN 500 ELSE match.favorite_points
UnderdogPointsOr500(match) ==
  IF match.favorite = NULL THEN 500 ELSE match.underdog_points

(***************************************************************************)
(* C15: calculateEventPotential returns max_possible = the sum of the      *)
(* larger getPickingPoints value of each match, min_possible = the sum of  *)
(* the smaller, all_favorites = the sum of favorite_points and             *)
(* all_underdogs = the sum of underdog_points, with 500/500 for a match    *)
(* without a favorite; the empty list gives zeros, one favorite-less match *)
(* gives 500 in all four fields.                                           *)
(***************************************************************************)
C15_EventPotentialTotals ==
  Returned("calculateEventPotential") =>
    LET matches == call.matches
    IN  /\ ret.max_possible = SumOverMatches(matches, HigherPoints)
        /\ ret.min_possible = SumOverMatches(matches, LowerPoints)
        /\ ret.all_favorites = SumOverMatches(matches, FavoritePointsOr500)
        /\ ret.all_underdogs = SumOverMatches(matches, UnderdogPointsOr500)
        /\ (matches = <<>> =>
              ret = [max_possible |-> 0, min_possible |-> 0,
                     all_favorites |-> 0, all_underdogs |-> 0])
        /\ (Len(matches) = 1 /\ matches[1].favorite = NULL =>
              ret = [max_possible |-> 500, min_possible |-> 500,
                     all_favorites |-> 500, all_underdogs |-> 500])

C15_Witness ==
  /\ Returned("calculateEventPotential")
  /\ Len(call.matches) = 2
  /\ call.matches[1].favorite = NULL
  /\ call.matches[2].favorite = "A"
  /\ call.matches[2].favorite_points = 666
  /\ ret = [max_possible |-> 1500, min_possible |-> 1166,
            all_favorites |-> 1166, all_underdogs |-> 1500]

Reordered(q, f) == [i \in 1..Len(q) |-> q[f[i]]]

AddPotentials(x, y) ==
  [max_possible  |-> x.max_possible + y.max_possible,
   min_possible  |-> x.min_possible + y.min_possible,
   all_favorites |-> x.all_favorites + y.all_favorites,
   all_underdogs |-> x.all_underdogs + y.all_underdogs]

(***************************************************************************)
(* C16: every permutation of a match list gives the same four totals, and  *)
(* the totals of the concatenation of two lists are the field-wise sums of *)
(* the totals of the two lists.                                            *)
(***************************************************************************)
C16_OrderIndependentAdditive ==
  Returned("calculateEventPotential") =>
    LET matches == call.matches
        n == Len(matches)
    IN  /\ \A f \in Permutations(1..n) :
             calculateEventPotential(Reordered(matches, f)) = ret
        /\ \A k \in 0..n :
             AddPotentials(calculateEventPotential(SubSeq(matches, 1, k)),
                           calculateEventPotential(SubSeq(matches, k + 1, n))) = ret

C16_Witness ==
  /\ Returned("calculateEventPotential")
  /\ Len(call.matches) = 3
  /\ call.matches[1].favorite = NULL
  /\ call.matches[2].favorite_points = 666
  /\ call.matches[3].underdog_points = 1199
  /\ call.matches[2].favorite = "A"
  /\ call.matches[3].favorite = "B"
  /\ ret = calculateEventPotential(<<call.matches[3], call.matches[1], call.matches[2]>>)
  /\ ret.all_underdogs = 500 + 1000 + 1199

(***************************************************************************)
(* C17: for every American odds o with |o| <= 5 and every basePoints,      *)
(* calculateMatchPointsFromAmerican returns favorite_points =              *)
(* underdog_points = basePoints, odds_ratio = 1.0 and americanOdds = 0;    *)
(* for every o with |o| > 5 the returned americanOdds is o.                *)
(***************************************************************************)
C17_PickEmBranch ==
  Returned("calculateMatchPointsFromAmerican") =>
    IF Abs(call.americanOdds) <= 5
    THEN /\ ret.favorite_points = call.basePoints
         /\ ret.underdog_points = call.basePoints
         /\ ret.odds_ratio = One
         /\ ret.americanOdds = 0
    ELSE ret.americanOdds = call.americanOdds

C17_Witness ==
  /\ Returned("calculateMatchPointsFromAmerican")
  /\ call.americanOdds = -5
  /\ call.basePoints = 7
  /\ ret.favorite_points = 7
  /\ ret.underdog_points = 7
  /\ ret.americanOdds = 0

(***************************************************************************)
(* C18 as claimed: if isWinner is false, every field of the result of      *)
(* calculatePick6Points is zero, double_down_multiplier included.          *)
(***************************************************************************)
C18_LoserAllFieldsZero ==
  Returned("calculatePick6Points") /\ ~call.sel.isWinner =>
    /\ ret.base_points = FZero
    /\ ret.finish_bonus = FZero
    /\ ret.underdog_bonus = FZero
    /\ ret.total_points = FZero
    /\ ret.double_down_multiplier = 0

(***************************************************************************)
(* C18 as amended: if isWinner is false, base_points, finish_bonus,        *)
(* underdog_bonus and total_points are zero and double_down_multiplier is  *)
(* 1, whether or not the selection was the double down.                    *)
(***************************************************************************)
C18_LoserPointsZeroMultiplierOne ==
  Returned("calculatePick6Points") /\ ~call.sel.isWinner =>
    /\ ret.base_points = FZero
    /\ ret.finish_bonus = FZero
    /\ ret.underdog_bonus = FZero
    /\ ret.total_points = FZero
    /\ ret.double_down_multiplier = 1

C18_Witness ==
  /\ Returned("calculatePick6Points")
  /\ ~call.sel.isWinner
  /\ call.sel.isDoubleDown
  /\ call.sel.americanOdds = 200
  /\ ret.double_down_multiplier = 1
  /\ ret.total_points = FZero

\* a call of americanOddsToDecimal on 0 or on odds of magnitude 100 or more
ConventionalOddsCall ==
  /\ Returned("americanOddsToDecimal")
  /\ \/ call.scale = 0 /\ (call.americanOdds = 0 \/ Abs(call.americanOdds) >= 100)
     \/ call.scale >= 7

\* a call of decimalToAmericanOdds on a ratio of 1.0 or more
RatioCall == Returned("decimalToAmericanOdds") /\ call.hundredths >= 100

\* what the claim says of decimalToAmericanOdds
AmericanOddsOfRatio ==
  RatioCall =>
    /\ ret = 0 \/ Abs(ret) >= 100
    /\ (call.hundredths >= 200 => ret > 0)
    /\ (call.hundredths > 100 /\ call.hundredths < 200 => ret < 0)

(***************************************************************************)
(* C19 as claimed: for every American odds o with o = 0 or |o| >= 100,     *)
(* americanOddsToDecimal(o) >= 1.0, and it is 1.0 exactly when o = 0; for  *)
(* every ratio d >= 1.0, decimalToAmericanOdds(d) is 0 or of magnitude 100 *)
(* or more, positive from 2.0 on and negative between 1.0 and 2.0.         *)
(***************************************************************************)
C19_ConversionsKeepOddsValue ==
  /\ ConventionalOddsCall =>
       FLeq(One, ret) /\ (ret = One <=> call.americanOdds = 0)
  /\ AmericanOddsOfRatio

(***************************************************************************)
(* C19 as amended: americanOddsToDecimal(o) >= 1.0 for o = 0 and for every *)
(* |o| >= 100; it is 1.0 at o = 0 and above 1.0 for every other such o of  *)
(* magnitude up to 2^59, while a favorite of magnitude 2^60 or more gives  *)
(* 1.0 again (100 / |o| is lost in the sum); decimalToAmericanOdds as      *)
(* claimed.                                                                *)
(***************************************************************************)
C19_ConversionsKeepOddsValueBelow2To60 ==
  /\ ConventionalOddsCall =>
       /\ FLeq(One, ret)
       /\ (call.scale <= 59 => (ret = One <=> call.americanOdds = 0))
       /\ (call.scale >= 60 => (ret = One <=> call.americanOdds < 0))
  /\ AmericanOddsOfRatio

C19_Witness ==
  /\ ConventionalOddsCall
  /\ call.americanOdds = -1
  /\ call.scale = 60
  /\ ret = One

CompareOdds == {-10000, -9999, -1000, -150, -101, -100, 100, 101, 150, 1000, 9999, 10000}

(***************************************************************************)
(* C20: for valid odds, calculateBasePoints(f) <= calculateBasePoints(u)   *)
(* whenever f <= -100 and u >= 100; calculateBasePoints does not increase  *)
(* as a favorite becomes more heavily favored and strictly increases in u  *)
(* for underdogs.  Each call is compared with its two neighbours and with  *)
(* the odds of CompareOdds.                                                *)
(***************************************************************************)
C20_FavoritesBelowUnderdogsMonotone ==
  Returned("calculateBasePoints") /\ Abs(call.americanOdds) >= 100
      /\ Abs(call.americanOdds) <= MaxValidOdds =>
    \A c \in {x \in CompareOdds \cup {call.americanOdds - 1, call.americanOdds + 1} :
                Abs(x) >= 100 /\ Abs(x) <= MaxValidOdds} :
      LET o == call.americanOdds
      IN  /\ (o < 0 /\ c > 0 => FLeq(ret, calculateBasePoints(c)))
          /\ (o < 0 /\ c < o => FLeq(calculateBasePoints(c), ret))
          /\ (o > 0 /\ c > o => FLess(ret, calculateBasePoints(c)))

C20_Witness ==
  /\ Returned("calculateBasePoints")
  /\ call.americanOdds = -100
  /\ ret = FromInt(100)
  /\ ret = calculateBasePoints(100)
  /\ FLess(calculateBasePoints(-101), ret)

(***************************************************************************)
(* C21: calculateMatchPoints reproduces the documented example scenarios:  *)
(* ratio 1 makes both wrestlers worth 500 points, ratio 1.5 gives 667 and  *)
(* 1000, ratio 3 gives 333/1000, ratio 9 gives 111/1000 and ratio 20       *)
(* gives 50/1000.  The code returns 1000/1000 at ratio 1 and 666/1000 at   *)
(* ratio 1.5.                                                              *)
(***************************************************************************)
C21_DocumentedExamples ==
  Returned("calculateMatchPoints") =>
    /\ (call.hundredths = 100 => ret.favorite_points = 500 /\ ret.underdog_points = 500)
    /\ (call.hundredths = 150 => ret.favorite_points = 667 /\ ret.underdog_points = 1000)
    /\ (call.hundredths = 300 => ret.favorite_points = 333 /\ ret.underdog_points = 1000)
    /\ (call.hundredths = 900 => ret.favorite_points = 111 /\ ret.underdog_points = 1000)
    /\ (call.hundredths = 2000 => ret.favorite_points = 50 /\ ret.underdog_points = 1000)

(***************************************************************************)
(* C22: for an event with a non-blank name of at most 100 characters and   *)
(* two parseable dates, validateEvent returns isValid = FALSE with the     *)
(* error 'Picks deadline must be before the event date' when the deadline  *)
(* is later than the event date, and isValid = TRUE without errors when    *)
(* it is earlier.  The code compares the two dates nowhere.                *)
(***************************************************************************)
C22_LateDeadlineRejected ==
  (/\ Returned("validateEvent")
   /\ Trim(call.data.name) # <<>>
   /\ Len(call.data.name) <= MaxEventNameLength
   /\ call.data.event_date.text = "iso"
   /\ call.data.picks_deadline.text = "iso") =>
    /\ call.data.picks_deadline.time > call.data.event_date.time =>
         /\ ~ret.isValid
         /\ \E i \in 1..Len(ret.errors) : ret.errors[i] = ErrDeadlineAfterEvent
    /\ call.data.picks_deadline.time < call.data.event_date.time =>
         /\ ret.isValid
         /\ ret.errors = <<>>

Contains(errors, message) == \E i \in 1..Len(errors) : errors[i] = message

Blank(s) == \A i \in 1..Len(s) : s[i] = " "

\* the text between the first and the last character that is not a space
Stripped(s) ==
  LET inked == {i \in 1..Len(s) : s[i] # " "}
  IN  IF inked = {} THEN <<>>
      ELSE SubSeq(s, CHOOSE i \in inked : \A j \in inked : i <= j,
                     CHOOSE i \in inked : \A j \in inked : i >= j)

SameLetter(c, d) == c = d \/ {c, d} = {"a", "A"} \/ {c, d} = {"b", "B"}

SameName(a, b) ==
  /\ Len(Stripped(a)) = Len(Stripped(b))
  /\ \A i \in 1..Len(Stripped(a)) : SameLetter(Stripped(a)[i], Stripped(b)[i])

OrderInRange(o) == ~o.nan /\ o.tenths \in {10 * k : k \in 1..MaxMatchOrder}

\* the messages a match form has to collect
MatchMessages(d) ==
  (IF Blank(d.weight_class) THEN {ErrWeightClassRequired}
   ELSE IF Len(d.weight_class) > 50 THEN {ErrWeightClassTooLong} ELSE {})
  \cup (IF Blank(d.wrestler_a) THEN {ErrWrestlerARequired}
        ELSE IF Len(d.wrestler_a) > 100 THEN {ErrWrestlerATooLong} ELSE {})
  \cup (IF Blank(d.wrestler_b) THEN {ErrWrestlerBRequired}
        ELSE IF Len(d.wrestler_b) > 100 THEN {ErrWrestlerBTooLong} ELSE {})
  \cup (IF SameName(d.wrestler_a, d.wrestler_b) THEN {ErrSameWrestlers} ELSE {})
  \cup (IF OrderInRange(d.match_order) THEN {} ELSE {ErrMatchOrder})

(***************************************************************************)
(* C23: validateMatch returns isValid = TRUE exactly when weight_class is  *)
(* non-blank and at most 50 characters, both wrestler names are non-blank  *)
(* and at most 100 characters, the names differ after trimming and case    *)
(* folding, and match_order is an integer in 1..20; every violated rule    *)
(* adds its own message once, equal names add 'Wrestler names must be      *)
(* different' and match_order 0 adds 'Match order must be a number         *)
(* between 1 and 20'.                                                      *)
(***************************************************************************)
C23_ValidateMatch ==
  Returned("validateMatch") =>
    /\ ret.isValid <=> MatchMessages(call.data) = {}
    /\ {ret.errors[i] : i \in 1..Len(ret.errors)} = MatchMessages(call.data)
    /\ Len(ret.errors) = Cardinality(MatchMessages(call.data))
    /\ SameName(call.data.wrestler_a, call.data.wrestler_b) =>
         Contains(ret.errors, ErrSameWrestlers)
    /\ (~call.data.match_order.nan /\ call.data.match_order.tenths = 0) =>
         Contains(ret.errors, ErrMatchOrder)

\* " a " against "A" with order 0: two messages on otherwise valid fields
C23_Witness ==
  /\ Returned("validateMatch")
  /\ call.data.wrestler_a = <<" ", "a", " ">>
  /\ call.data.wrestler_b = <<"A">>
  /\ call.data.match_order = [nan |-> FALSE, tenths |-> 0]
  /\ ret.errors = <<ErrSameWrestlers, ErrMatchOrder>>
  /\ ~ret.isValid

(***************************************************************************)
(* C24: in the Pick 6 selection UI a non-null doubleDownPickId always      *)
(* names a match that is in selectedPicks, and every entry written by      *)
(* handleSubmit holds exactly one selection with is_double_down = TRUE.    *)
(* The double down survives Cancel and the removal of its pick.            *)
(***************************************************************************)
C24_DoubleDownNamesSelectedPick ==
  pc = "mounted" =>
    /\ doubleDownPickId # NullId =>
         \E i \in 1..Len(selectedPicks) : selectedPicks[i].matchId = doubleDownPickId
    /\ pick6_entries # <<>> =>
         Cardinality({i \in 1..Len(pick6_selections) : pick6_selections[i].is_double_down}) = 1

PicksWithinLimit ==
  /\ Len(selectedPicks) <= pickCount
  /\ \A i, j \in 1..Len(selectedPicks) :
       selectedPicks[i].matchId = selectedPicks[j].matchId => i = j

\* what a click on a fighter does to the picks
FighterSelectEffect(fighter) ==
  LET i == FindPickIndex(selectedPicks, fighter.matchId)
  IN  /\ existingEntry.is_complete =>
           UNCHANGED <<selectedPicks, showDoubleDown, doubleDownPickId>>
      /\ (~existingEntry.is_complete /\ i > 0
          /\ selectedPicks[i].fighter.fighterPosition = fighter.fighterPosition) =>
           /\ Len(selectedPicks') = Len(selectedPicks) - 1
           /\ \A j \in 1..Len(selectedPicks') : selectedPicks'[j].matchId # fighter.matchId
      /\ (~existingEntry.is_complete /\ i > 0
          /\ selectedPicks[i].fighter.fighterPosition # fighter.fighterPosition) =>
           /\ Len(selectedPicks') = Len(selectedPicks)
           /\ selectedPicks'[i].fighter = fighter
           /\ \A j \in 1..Len(selectedPicks) : j # i => selectedPicks'[j] = selectedPicks[j]

(***************************************************************************)
(* C28: starting from an empty selection, selectedPicks never holds more   *)
(* than pickCount picks nor two picks of one match; a click on the         *)
(* selected fighter removes that pick, a click on the other fighter of a   *)
(* picked match replaces it and keeps the number of picks, and once        *)
(* existingEntry.is_complete is TRUE handleFighterSelect leaves            *)
(* selectedPicks, showDoubleDown and doubleDownPickId unchanged.           *)
(***************************************************************************)
C28_PicksWithinLimit ==
  /\ [](pc = "mounted" => PicksWithinLimit)
  /\ [][\A fighter \in FighterOptions :
          HandleFighterSelect(fighter) => FighterSelectEffect(fighter)]_vars

\* a fighter is clicked after the submission of a full card
C28_Witness ==
  /\ pc = "mounted"
  /\ existingEntry.is_complete
  /\ call.fn = "handleFighterSelect"
  /\ Len(selectedPicks) = pickCount
  /\ selectedPicks[1].matchId # selectedPicks[2].matchId

(***************************************************************************)
(* C25: under the trigger, after any sequence of result updates on a match *)
(* (a winner recorded, the winner or the finish type changed, the result   *)
(* reset), every Pick 6 selection whose is_winner is not TRUE has          *)
(* final_points = 0, and the total_points of every entry is the sum of     *)
(* the points of its winning selections, picks_correct their number.  A    *)
(* reset leaves the points of the former winners in place.                 *)
(***************************************************************************)
C25_NonWinnersScoreZero ==
  pc = "results" =>
    /\ \A i \in 1..Len(pick6_selections) :
         pick6_selections[i].is_winner # SqlTrue => pick6_selections[i].final_points = 0
    /\ \A e \in 1..Len(pick6_entries) :
         /\ pick6_entries[e].total_points =
              SumFinalPoints(pick6_selections, 1, pick6_entries[e].id, TRUE)
         /\ pick6_entries[e].picks_correct = CountWinners(pick6_selections, pick6_entries[e].id)

(***************************************************************************)
(* C26: editing a traditional match is idempotent on points: for a match   *)
(* created by handleAddMatch with valid American odds and base points,     *)
(* every handleEditClick followed by handleUpdateMatch with no field       *)
(* changed leaves favorite_points and underdog_points as they were         *)
(* stored.  The edit form takes underdog_points as its base points and an  *)
(* odds value from the two stored decimals of odds_ratio.                  *)
(***************************************************************************)
C26_EditSaveKeepsPoints ==
  [][HandleUpdateMatch(LegacyFields(editMatchForm)) =>
       /\ matchesTable'[1].favorite_points = matchesTable[1].favorite_points
       /\ matchesTable'[1].underdog_points = matchesTable[1].underdog_points]_vars

(***************************************************************************)
(* C29: the percentage getAmericanOddsDescription(o) shows for |o| > 5 is  *)
(* the implied win probability of the side it names, in whole percent:     *)
(* round(100 * |o| / (|o| + 100)) under the text Favorite for negative o,  *)
(* round(100 * 100 / (o + 100)) under the text Underdog for positive o;    *)
(* for |o| <= 5 it reports a true pick-em worth basePoints.  The function  *)
(* takes the probability of |o|, the underdog's, for both signs.           *)
(***************************************************************************)
C29_PercentageOfNamedSide ==
  Returned("getAmericanOddsDescription") =>
    LET o == call.americanOdds
    IN  IF Abs(o) <= 5 THEN ret = [text |-> "True pick-em", shown |-> call.basePoints]
        ELSE IF o < 0
        THEN ret = [text |-> "Favorite", shown |-> RoundHalfUp(100 * Abs(o), Abs(o) + 100)]
        ELSE ret = [text |-> "Underdog", shown |-> RoundHalfUp(100 * 100, o + 100)]

\* the stored points of selection i are those of calculatePick6Points
StoredAsCalculated(i) ==
  LET selection == pick6_selections[i]
      points == calculatePick6Points(
                  [americanOdds |-> selection.american_odds, isWinner |-> TRUE,
                   finishType |-> matchesTable[selection.match_id].finish_type,
                   isDoubleDown |-> selection.is_double_down])
  IN  /\ Dec1(selection.base_points) = points.base_points
      /\ Dec1(selection.finish_bonus) = points.finish_bonus
      /\ Dec1(selection.underdog_bonus) = points.underdog_bonus
      /\ Dec1(selection.final_points) = points.total_points

(***************************************************************************)
(* C27: the fallback of the admin's Recalculate Points writes, for every   *)
(* winning selection, the base_points, finish_bonus, underdog_bonus and    *)
(* final_points that calculatePick6Points returns for the same American    *)
(* odds, finish type of the match and double-down flag.  The fallback      *)
(* takes Math.floor where calculatePick6Points rounds to one decimal.      *)
(***************************************************************************)
C27_FallbackAsCalculatePick6Points ==
  (pc = "results" /\ call # <<>> /\ call.fn = "handleRecalculatePoints") =>
    \A i \in 1..Len(pick6_selections) :
      pick6_selections[i].is_winner = SqlTrue => StoredAsCalculated(i)

\* the picks of one user on the matches: a wrestler or none for each
PicksOn(matches) == [1..Len(matches) -> Wrestlers \cup {NULL}]

\* the points the picks realize on the matches
RealizedPoints(matches, picks) ==
  SumSeq([i \in 1..Len(matches) |->
            calculatePickPoints(matches[i], [selected_wrestler |-> picks[i]])])

(***************************************************************************)
(* C30: realized legacy points never exceed the event potential: for every *)
(* list of matches, winners and picks (one per match or none) the sum of   *)
(* calculatePickPoints(match, pick) over the matches is at most            *)
(* calculateEventPotential(matches).max_possible, and a correct pick earns *)
(* exactly the getPickingPoints value of the selected side.                *)
(***************************************************************************)
C30_RealizedWithinPotential ==
  /\ Returned("calculateEventPotential") =>
       \A picks \in PicksOn(call.matches) :
         RealizedPoints(call.matches, picks) <= ret.max_possible
  /\ (/\ Returned("calculatePickPoints")
      /\ call.pick.selected_wrestler # NULL
      /\ call.pick.selected_wrestler = call.match.winner) =>
       ret = (IF call.pick.selected_wrestler = "A"
              THEN getPickingPoints(call.match).wrestler_a
              ELSE getPickingPoints(call.match).wrestler_b)

\* every match decided, its higher side the winner, and every pick correct:
\* the potential is realized in full
C30_Witness ==
  /\ Returned("calculateEventPotential")
  /\ Len(call.matches) >= 2
  /\ call.matches[1].favorite # NULL
  /\ call.matches[1].favorite_points # call.matches[1].underdog_points
  /\ \E picks \in PicksOn(call.matches) :
       /\ \A i \in 1..Len(call.matches) : picks[i] = call.matches[i].winner /\ picks[i] # NULL
       /\ RealizedPoints(call.matches, picks) = ret.max_possible

=============================================================================
